---------------------------- MODULE Spec2Model ----------------------------
(***************************************************************************)
(* A model of the Modbus communication core of the ac_modbus integration:  *)
(* the connection hub (hub.py), the polling coordinator (coordinator.py),  *)
(* the services (services.py), the switch and select entities (switch.py,  *)
(* select.py) and the configuration form's validation (config_flow.py).    *)
(*                                                                         *)
(* Scheduling model: asyncio, single threaded and cooperative.  One step   *)
(* of the model is the code one task runs between two suspension points.   *)
(* A task suspends where it awaits a transport call (connect, test read,   *)
(* read, write), where it waits for the hub's lock while another task      *)
(* holds it, and where it sleeps.  An "await" of a coroutine that does not *)
(* itself suspend runs on in the same step.                                *)
(*                                                                         *)
(* The program state is carried through the operators as one record s      *)
(* (see Cur and Apply); every operator below maps a state to the state     *)
(* after the code it models has run up to its next suspension point.       *)
(*                                                                         *)
(* Assumed: Python 3.11+ (asyncio.TimeoutError is the builtin              *)
(* TimeoutError) and pymodbus installed (HAS_PYMODBUS is true and          *)
(* ConnectionException is pymodbus's own class).                           *)
(***************************************************************************)
EXTENDS Integers, Sequences, FiniteSets, TLC

\* ------------------------------------------------------------- bounds
NTasks == 2        \* concurrent tasks
MaxValue == 1      \* register values written are 0..MaxValue
MaxFaults == 2     \* transport faults the environment injects in one run
MaxErrors == 2     \* a refresh cycle is started only below this error count
MaxStamp == 2      \* ... and below this many timestamped successes
MaxBackoff == 2    \* an operation is started only below this backoff count
MaxSpan == 4       \* a scan's end is at most start + MaxSpan
MaxStep == 2       \* a scan's step is 1..MaxStep
MaxCount == 6      \* backoff counts the delay is computed for: 0..MaxCount
LiveCycles == 1    \* refresh cycles followed under fair scheduling
LongBackoff == 40  \* a configured backoff that reaches the cap at count 2

\* ---------------------------------------------------- program constants
REGISTER_POWER == 1033
REGISTER_HOME_AWAY == 1034
REGISTER_MODE == 1041
REGISTER_HUMIDIFY == 1168
MAX_SCAN_RANGE == 100
TEST_REGISTER == 1033
DEFAULT_RECONNECT_BACKOFF == 5
DEFAULT_UNIT_ID == 1
DEFAULT_PORT == 502
DEFAULT_POLL_INTERVAL == 10
DEFAULT_TIMEOUT == 3
MIN_POLL_INTERVAL == 5
MAX_DELAY == 60

Tasks == 1..NTasks
Values == 0..MaxValue
None == 0 - 1
DefaultRegisters ==
    <<REGISTER_POWER, REGISTER_HOME_AWAY, REGISTER_MODE, REGISTER_HUMIDIFY>>
Tracked == {DefaultRegisters[i] : i \in 1..Len(DefaultRegisters)}
ScanStarts == {REGISTER_POWER, REGISTER_POWER + 1}
Addrs == Tracked \cup (REGISTER_POWER..(REGISTER_POWER + 1 + MaxSpan))

\* The unit-id calling conventions _call_modbus tries, in its order, and the
\* adapters the hub may face: one accepting exactly one convention, or none.
Conventions == <<"device_id", "slave", "unit", "none">>
Adapters == {"device_id", "slave", "unit", "none", "reject_all"}

VARIABLES
    client,              \* hub._client is not None
    live,                \* the transport clients created and not closed since
    connected,           \* hub._connected
    backoff_count,       \* hub._backoff_count
    last_error,          \* hub._last_error ("" for None)
    lock,                \* hub._lock: the task holding it, 0 when free
    waitq,               \* hub._lock's waiters, in arrival order
    registers,           \* coordinator._registers
    data,                \* coordinator._data (None: no entry)
    available,           \* coordinator._available
    consecutive_errors,  \* coordinator._consecutive_errors
    last_update_time,    \* coordinator._last_update_time (0 for None)
    dev,                 \* the device's holding registers
    adapter,             \* the calling convention the transport adapter's
                         \* read_holding_registers accepts
    wadapter,            \* ... and the one its write_register accepts
    reconnect_backoff,   \* hub._reconnect_backoff, in seconds
    unit_id,             \* hub._unit_id
    config,              \* the configuration form: the input submitted and
                         \* what validate_input returned for it
    faults,              \* transport faults injected so far
    linkLost,            \* history: "clean" since a refresh read timed out
                         \* and nothing but healthy traffic followed
    pc,                  \* each task's position
    fr,                  \* each task's locals
    res                  \* the call completed by the last step, if any

vars == <<client, live, connected, backoff_count, last_error, lock, waitq, registers,
          data, available, consecutive_errors, last_update_time, dev, adapter,
          wadapter, reconnect_backoff, unit_id, config,
          faults, linkLost, pc, fr, res>>

NoData == [a \in Addrs |-> None]

\* A task's locals.  op: the call the task is in; cctx, rctx, wctx: who called
\* connect, read_register, write_register; the rest are those calls' locals.
\* History kept with them: b0 (the backoff count when connect took the lock),
\* changed (the tracked list changed during this cycle), afterLoss (the cycle
\* began after a lost link), data0, stamp0, errors0 (the coordinator's cache,
\* less what remove_register purged since, timestamp and error count when the
\* cycle began), attempted (the addresses a scan or a refresh cycle passed to
\* read_register, in that order),
\* tested (how connect's test read was answered), got (the value the task's
\* last read returned), stored (the device took the task's write), overwritten
\* (another task's write then put a different value at that address), hubok
\* (hub.write_register returned to the write service), written (the task's
\* write was answered without error), touched (another task's write was
\* stored at that address after that), answer (how the transport answered
\* the task's last read or write request), count0 (the backoff count when
\* reconnect was called), slept (the seconds reconnect slept), closed (how
\* close() of the old client went in disconnect or connect: "absent" with none),
\* tried (the calling conventions _call_modbus has attempted for the task's
\* current request), sent (the last of them was accepted and the request is
\* with the transport), recorded (_record_error ran in the task's call),
\* wire (the unit id the request with the transport carries, None for none).
\* runit and wunit are the unit_id arguments of read_register and
\* write_register.
NoFrame ==
    [op |-> "none", cctx |-> "none", rctx |-> "none", wctx |-> "none",
     addr |-> None, waddr |-> None, value |-> None, verify |-> FALSE,
     expected |-> None, b0 |-> None, idx |-> 0, new_data |-> NoData,
     changed |-> FALSE, afterLoss |-> FALSE,
     data0 |-> NoData, stamp0 |-> 0, errors0 |-> 0,
     tested |-> "none", got |-> None, stored |-> FALSE, overwritten |-> FALSE,
     hubok |-> FALSE, written |-> FALSE, touched |-> FALSE,
     answer |-> "none", count0 |-> None, slept |-> None, closed |-> "none",
     tried |-> <<>>, sent |-> FALSE, recorded |-> FALSE,
     runit |-> None, wunit |-> None, wire |-> None,
     start |-> None, end |-> None, step |-> None, cur |-> None,
     results |-> {}, errors |-> <<>>, attempted |-> <<>>]

\* What a completed call left: kind is "ok" for a normal return, else the
\* condition raised.
NoRes ==
    [task |-> 0, op |-> "none", kind |-> "none", val |-> None, msg |-> <<>>,
     frame |-> NoFrame]

\* The state as a record; res is cleared at the start of every step.
Cur ==
    [client |-> client, live |-> live, connected |-> connected, backoff_count |-> backoff_count,
     last_error |-> last_error, lock |-> lock, waitq |-> waitq,
     registers |-> registers, data |-> data, available |-> available,
     consecutive_errors |-> consecutive_errors,
     last_update_time |-> last_update_time, dev |-> dev, adapter |-> adapter,
     wadapter |-> wadapter,
     reconnect_backoff |-> reconnect_backoff, unit_id |-> unit_id,
     faults |-> faults, linkLost |-> linkLost, pc |-> pc, fr |-> fr,
     res |-> NoRes]

\* The bound r holds the state record, evaluated once.
Apply(s) ==
    \E r \in {s} :
        /\ client' = r.client
        /\ live' = r.live
        /\ connected' = r.connected
        /\ backoff_count' = r.backoff_count
        /\ last_error' = r.last_error
        /\ lock' = r.lock
        /\ waitq' = r.waitq
        /\ registers' = r.registers
        /\ data' = r.data
        /\ available' = r.available
        /\ consecutive_errors' = r.consecutive_errors
        /\ last_update_time' = r.last_update_time
        /\ dev' = r.dev
        /\ adapter' = r.adapter
        /\ wadapter' = r.wadapter
        /\ reconnect_backoff' = r.reconnect_backoff
        /\ unit_id' = r.unit_id
        /\ config' = config
        /\ faults' = r.faults
        /\ linkLost' = r.linkLost
        /\ pc' = r.pc
        /\ fr' = r.fr
        /\ res' = r.res

\* Outcomes of a call: a returned value or a raised condition.
Ret(v) == [kind |-> "ok", val |-> v, msg |-> <<>>]
Raise(k) == [kind |-> k, val |-> None, msg |-> <<>>]
RaiseMsg(k, m) == [kind |-> k, val |-> None, msg |-> m]

\* ------------------------------------------- config_flow.validate_input
\* A user input is a dict: a function from the keys given to their values.
\* A value is an int, a float (a whole one: n holds it), a str (s holds the
\* sequence of its characters) or None.
ConfKeys == {"host", "port", "poll_interval", "timeout"}
NoInput == [k \in {} |-> 0]
PyInt(n) == [type |-> "int", n |-> n, s |-> <<>>]
PyFloat(n) == [type |-> "float", n |-> n, s |-> <<>>]
PyStr(q) == [type |-> "str", n |-> 0, s |-> q]
NoneValue == [type |-> "NoneType", n |-> 0, s |-> <<>>]

\* dict.get(key, default); user_input.get(key) is Get(user_input, key,
\* NoneValue).
Get(d, k, default) == IF k \in DOMAIN d THEN d[k] ELSE default

\* isinstance(x, types)
isinstance(x, types) == x.type \in types

\* bool(x): an empty string, a zero and None are false.
truthy(x) ==
    CASE x.type = "str" -> x.s # <<>>
      [] x.type = "NoneType" -> FALSE
      [] OTHER -> x.n # 0

\* The characters str.isspace() holds for, of the ones the model writes.
Whitespace == {" ", "\t", "\n", "\r", "\f"}

\* str.strip(): leading and trailing whitespace removed.
RECURSIVE lstrip(_)
lstrip(q) == IF q # <<>> /\ Head(q) \in Whitespace THEN lstrip(Tail(q)) ELSE q
RECURSIVE rstrip(_)
rstrip(q) ==
    IF q # <<>> /\ q[Len(q)] \in Whitespace
    THEN rstrip(SubSeq(q, 1, Len(q) - 1)) ELSE q
strip(q) == rstrip(lstrip(q))

\* ord(c), for the characters the model writes.
ord(c) ==
    CASE c = "\t" -> 9
      [] c = "\n" -> 10
      [] c = "\f" -> 12
      [] c = "\r" -> 13
      [] c = " " -> 32
      [] c = "1" -> 49
      [] c = "3" -> 51
      [] c = "5" -> 53
      [] OTHER -> 104 \* "h"

\* a < b for two strings: by the first character they differ in.
RECURSIVE str_lt(_, _)
str_lt(a, b) ==
    IF b = <<>> THEN FALSE
    ELSE IF a = <<>> THEN TRUE
    ELSE IF ord(Head(a)) # ord(Head(b)) THEN ord(Head(a)) < ord(Head(b))
    ELSE str_lt(Tail(a), Tail(b))

\* x >= y is defined between two numbers and between two strings; for
\* anything else Python raises TypeError.
comparable(x, y) ==
    \/ x.type \in {"int", "float"} /\ y.type \in {"int", "float"}
    \/ x.type = "str" /\ y.type = "str"
ge(x, y) == IF x.type = "str" THEN ~str_lt(x.s, y.s) ELSE x.n >= y.n

\* config_flow.py 52-85: the set of the fields an error is reported for, or
\* the TypeError the comparison at line 82 raises.
validate_input(user_input) ==
    LET host == Get(user_input, "host", PyStr(<<>>))
        port == Get(user_input, "port", PyInt(DEFAULT_PORT))
        poll_interval == Get(user_input, "poll_interval", NoneValue)
        timeout == Get(user_input, "timeout", NoneValue)
        errors ==
            (IF \/ ~truthy(host)
                \/ ~isinstance(host, {"str"})
                \/ Len(strip(host.s)) = 0
             THEN {"host"} ELSE {})
            \cup (IF \/ ~isinstance(port, {"int"})
                     \/ port.n < 1
                     \/ port.n > 65535
                  THEN {"port"} ELSE {})
            \cup (IF /\ poll_interval # NoneValue
                     /\ \/ ~isinstance(poll_interval, {"int", "float"})
                        \/ poll_interval.n < MIN_POLL_INTERVAL
                  THEN {"poll_interval"} ELSE {})
    IN  IF timeout # NoneValue /\ poll_interval # NoneValue
        THEN IF ~comparable(timeout, poll_interval)
             THEN Raise("TypeError")
             ELSE Ret(errors \cup (IF ge(timeout, poll_interval)
                                    THEN {"timeout"} ELSE {}))
        ELSE Ret(errors)

\* No form submitted.
NoConfig == [input |-> NoInput, errors |-> {}, raised |-> "", done |-> FALSE]

\* ModbusHub.is_connected
is_connected_of(s) == IF ~s.client THEN FALSE ELSE s.connected
is_connected == is_connected_of(Cur)

\* ModbusHub._record_error, run by task t: the message is kept, and stamped
\* with the time.
record_error(s, t, error) ==
    [s EXCEPT !.last_error = error, !.fr[t].recorded = TRUE]

\* ------------------------------------------------------------ the lock
\* asyncio.Lock: acquire() takes a free lock with no waiter at once and
\* otherwise queues the caller; release() hands the lock to the first waiter.
LockFree(s) == s.lock = 0 /\ s.waitq = <<>>

Release(s) ==
    IF s.waitq = <<>>
    THEN [s EXCEPT !.lock = 0]
    ELSE [s EXCEPT !.lock = Head(s.waitq), !.waitq = Tail(s.waitq)]

Enqueue(s, t, waitpc) ==
    [s EXCEPT !.waitq = Append(@, t), !.pc[t] = waitpc]

\* The task's top-level call returns or raises `out`.
Finish(s, t, out) ==
    [s EXCEPT !.pc[t] = "idle",
              !.res = [task |-> t, op |-> s.fr[t].op, kind |-> out.kind,
                       val |-> out.val, msg |-> out.msg, frame |-> s.fr[t]],
              !.fr[t] = NoFrame]

\* An injected transport fault; it ends a "clean since the link was lost" run.
Fault(s) ==
    [s EXCEPT !.faults = @ + 1,
              !.linkLost = IF @ = "clean" THEN "dirty" ELSE @]

\* Another component steps in (an explicit connect, reconnect or disconnect).
Intervene(s) == [s EXCEPT !.linkLost = IF @ = "clean" THEN "dirty" ELSE @]

\* --------------------------------------------------------- hub.connect
\* Mutant of ConnectLocked: the old client is dropped without close().
ConnectLocked_NoClose(s, t) ==
    [s EXCEPT !.client = TRUE,
              !.live = @ + 1,
              !.fr[t].closed = "absent",
              !.fr[t].b0 = s.backoff_count,
              !.pc[t] = "conn_wait"]

\* hub.py 149-173, the lock held: close and drop the old client, create the
\* new one and issue its connect().  A client counts as closed once close()
\* was called on it; what close() raises is suppressed.
ConnectLocked(s, t) ==
    [s EXCEPT !.client = TRUE,
              !.live = (IF s.client THEN @ - 1 ELSE @) + 1,
              !.fr[t].closed = IF s.client THEN "ok" ELSE "absent",
              !.fr[t].b0 = s.backoff_count,
              !.pc[t] = "conn_wait"]

\* hub.py 147-148: async with self._lock
ConnectBegin(s, t, caller) ==
    LET s1 == [s EXCEPT !.fr[t].cctx = caller]
    IN  IF LockFree(s1)
        THEN ConnectLocked([s1 EXCEPT !.lock = t], t)
        ELSE Enqueue(s1, t, "conn_lock")

\* -------------------------------------------------------- hub.reconnect
Min(a, b) == IF a < b THEN a ELSE b

\* Mutant of reconnect_delay: the delay is not capped.
reconnect_delay_NoCap(backoff, count) == backoff * 2 ^ (count - 1)

\* hub.py 247-250
reconnect_delay(backoff, count) == Min(backoff * 2 ^ (count - 1), MAX_DELAY)

\* hub.py 254: the sleep is over, or there was none.
ReconnectConnect(s, t) == ConnectBegin(s, t, "top")

\* hub.py 241-254: reconnect up to its first suspension.
ReconnectBegin(s, t) ==
    LET s1 == [s EXCEPT !.fr[t].count0 = s.backoff_count]
    IN  IF s.backoff_count > 0
        THEN [s1 EXCEPT !.fr[t].slept =
                            reconnect_delay(s.reconnect_backoff,
                                            s.backoff_count),
                        !.pc[t] = "sleeping"]
        ELSE ReconnectConnect(s1, t)

\* ---------------------------------------------------- hub._call_modbus
\* The adapter's method takes the call made with this convention; any other
\* raises TypeError as it is called: Python binds a call's arguments when the
\* call is made, before anything is awaited, so the hub goes on to the next
\* convention without suspending.
Accepts(s, method, convention) ==
    convention = (IF method = "read_holding_registers"
                  THEN s.adapter ELSE s.wadapter)

\* read_register and write_register return into their callers, which are
\* defined with the callers below.
RECURSIVE ReadDone(_, _, _)
RECURSIVE WriteDone(_, _, _)

\* hub.py 305-309: no convention is left and _call_modbus raises; the lock is
\* released as the `async with` is left.  read_register re-raises the
\* ModbusReadError as it is, recording nothing (hub.py 363-365), and
\* write_register records it and wraps it (hub.py 429-431).
AllRejected(s, t, method) ==
    LET r == [Release(s) EXCEPT !.fr[t].sent = FALSE,
                                !.fr[t].answer = "rejected"]
    IN  IF method = "read_holding_registers"
        THEN ReadDone(r, t, Raise("ModbusReadError"))
        ELSE WriteDone(record_error(r, t, "Write failed"), t,
                       Raise("ModbusWriteError"))

\* Mutant of effective_unit: `unit_id or self._unit_id`.
effective_unit_Falsy(s, override) ==
    IF override \notin {None, 0} THEN override ELSE s.unit_id

\* hub.py 335 and 399: the unit id of the request.
effective_unit(s, override) ==
    IF override # None THEN override ELSE s.unit_id

\* hub.py 339-344, 403-408 and 280: the unit id _call_modbus is given.
slave_of(s, t, method) ==
    effective_unit(s, IF method = "read_holding_registers"
                      THEN s.fr[t].runit ELSE s.fr[t].wunit)

\* hub.py 285-291: the unit id the call made by a convention carries.
unit_sent(s, t, method, convention) ==
    IF convention = "none" THEN None ELSE slave_of(s, t, method)

\* Mutant of call_modbus: the conventions are tried last to first.
RECURSIVE call_modbus_Reversed(_, _, _, _)
call_modbus_Reversed(s, t, method, i) ==
    LET k == Len(Conventions) + 1 - i
    IN  IF i > Len(Conventions)
        THEN AllRejected(s, t, method)
        ELSE LET s1 == [s EXCEPT !.fr[t].tried = Append(@, Conventions[k])]
             IN  IF Accepts(s, method, Conventions[k])
                 THEN [s1 EXCEPT !.fr[t].sent = TRUE,
                                 !.fr[t].wire =
                                     unit_sent(s, t, method, Conventions[k])]
                 ELSE call_modbus_Reversed(s1, t, method, i + 1)

\* hub.py 283-309: the attempts from the i-th on, up to the first whose call
\* the adapter takes; that request is then with the transport and the task
\* waits for its answer.  With every convention rejected nothing is sent and
\* the call fails there and then.
RECURSIVE call_modbus(_, _, _, _)
call_modbus(s, t, method, i) ==
    IF i > Len(Conventions)
    THEN AllRejected(s, t, method)
    ELSE LET s1 == [s EXCEPT !.fr[t].tried = Append(@, Conventions[i])]
         IN  IF Accepts(s, method, Conventions[i])
             THEN [s1 EXCEPT !.fr[t].sent = TRUE,
                             !.fr[t].wire =
                                 unit_sent(s, t, method, Conventions[i])]
             ELSE call_modbus(s1, t, method, i + 1)

\* ---------------------------------------------------- hub.read_register
\* hub.py 339-344: the request goes out through _call_modbus.
ReadLocked(s, t) ==
    call_modbus([s EXCEPT !.pc[t] = "read_wait", !.fr[t].answer = "none",
                          !.fr[t].tried = <<>>],
                t, "read_holding_registers", 1)

\* Mutant of ReadAcquire: the request goes out without the lock.
ReadAcquire_NoLock(s, t) == ReadLocked(s, t)

\* hub.py 338: async with self._lock
ReadAcquire(s, t) ==
    IF LockFree(s)
    THEN ReadLocked([s EXCEPT !.lock = t], t)
    ELSE Enqueue(s, t, "read_lock")

\* hub.py 262: _ensure_connected's test
NeedsConnect(s) == ~s.client \/ ~s.connected

\* Mutant of ReadBegin: a hub that is not connected is reconnected, with the
\* backoff delay.
ReadBegin_ViaReconnect(s, t, address, caller) ==
    LET s1 == [s EXCEPT !.fr[t].addr = address, !.fr[t].rctx = caller]
    IN  IF NeedsConnect(s1)
        THEN IF s.backoff_count > 0
             THEN [s1 EXCEPT !.pc[t] = "sleeping"]
             ELSE ConnectBegin(s1, t, "ensure_read")
        ELSE ReadAcquire(s1, t)

\* hub.py 331-338: read_register up to its first suspension.
ReadBegin(s, t, address, caller) ==
    LET s1 == [s EXCEPT !.fr[t].addr = address, !.fr[t].rctx = caller]
    IN  IF NeedsConnect(s1)
        THEN ConnectBegin(s1, t, "ensure_read")
        ELSE ReadAcquire(s1, t)

\* --------------------------------------------------- hub.write_register
\* hub.py 403-408
WriteLocked(s, t) ==
    call_modbus([s EXCEPT !.pc[t] = "write_wait", !.fr[t].answer = "none",
                          !.fr[t].tried = <<>>],
                t, "write_register", 1)

\* hub.py 402: async with self._lock
WriteAcquire(s, t) ==
    IF LockFree(s)
    THEN WriteLocked([s EXCEPT !.lock = t], t)
    ELSE Enqueue(s, t, "write_lock")

\* hub.py 395-402: write_register up to its first suspension.
WriteBegin(s, t, address, v, ver, exp, caller) ==
    LET s1 == [s EXCEPT !.fr[t].waddr = address, !.fr[t].value = v,
                        !.fr[t].verify = ver, !.fr[t].expected = exp,
                        !.fr[t].wctx = caller]
    IN  IF NeedsConnect(s1)
        THEN ConnectBegin(s1, t, "ensure_write")
        ELSE WriteAcquire(s1, t)


\* ----------------------------------------------------- the coordinator
\* ACModbusCoordinator.get_register
get_register_of(s, address) == s.data[address]
get_register(address) == get_register_of(Cur, address)

\* Mutant of RefreshCommit: the new values are merged into the old cache.
RefreshCommit_Merge(s, t) ==
    Finish([s EXCEPT !.data = [a \in Addrs |->
                                 IF s.fr[t].new_data[a] # None
                                 THEN s.fr[t].new_data[a] ELSE @[a]],
                     !.available = TRUE,
                     !.consecutive_errors = 0,
                     !.last_update_time = @ + 1],
           t, Ret(None))

\* Mutant of RefreshCommit: the error count is left as it was.
RefreshCommit_NoReset(s, t) ==
    Finish([s EXCEPT !.data = s.fr[t].new_data,
                     !.available = TRUE,
                     !.last_update_time = @ + 1],
           t, Ret(None))

\* coordinator.py 155 and 118-120: the cycle read every register.  A
\* timestamp is modelled by its rank: each datetime.now() taken is later than
\* the one before.
RefreshCommit(s, t) ==
    Finish([s EXCEPT !.data = s.fr[t].new_data,
                     !.available = TRUE,
                     !.consecutive_errors = 0,
                     !.last_update_time = @ + 1],
           t, Ret(None))

\* Mutant of RefreshFail: what the failed cycle had read is merged in.
RefreshFail_Merge(s, t, exc) ==
    Finish([s EXCEPT !.data = [a \in Addrs |->
                                 IF s.fr[t].new_data[a] # None
                                 THEN s.fr[t].new_data[a] ELSE @[a]],
                     !.available = FALSE,
                     !.consecutive_errors = @ + 1],
           t, RaiseMsg("ok", <<exc.kind>>))

\* Mutant of RefreshFail: only the hub's own error classes are caught, so a
\* timeout propagates.
RefreshFail_Reraise(s, t, exc) ==
    IF exc.kind = "TimeoutError"
    THEN Finish(s, t, exc)
    ELSE Finish([s EXCEPT !.available = FALSE,
                          !.consecutive_errors = @ + 1],
                t, RaiseMsg("ok", <<exc.kind>>))

\* coordinator.py 122-130: async_refresh catches whatever the cycle raised.
\* The result's msg names the condition caught.
RefreshFail(s, t, exc) ==
    Finish([s EXCEPT !.available = FALSE,
                     !.consecutive_errors = @ + 1],
           t, RaiseMsg("ok", <<exc.kind>>))

\* coordinator.py 146-148: the list iterator's next step.  The iterator keeps
\* an index into the live list, so it sees the list as it is now.
RefreshLoop(s, t) ==
    LET i == s.fr[t].idx
    IN  IF i < Len(s.registers)
        THEN ReadBegin([s EXCEPT !.fr[t].idx = i + 1,
                                 !.fr[t].attempted =
                                     Append(@, s.registers[i + 1])],
                       t, s.registers[i + 1], "refresh")
        ELSE RefreshCommit(s, t)

\* coordinator.py 116-117 and 141-144
RefreshBegin(s, t) ==
    LET s1 == [s EXCEPT !.fr[t] = [NoFrame EXCEPT !.op = "refresh",
                                       !.afterLoss = (s.linkLost = "clean"),
                                       !.data0 = s.data,
                                       !.stamp0 = s.last_update_time,
                                       !.errors0 = s.consecutive_errors]]
    IN  IF ~is_connected_of(s1)
        THEN RefreshFail(s1, t, Raise("Exception"))
        ELSE RefreshLoop(s1, t)

\* Mutant of RefreshRead: a failed read is skipped while registers remain.
RefreshRead_SkipFailed(s, t, out) ==
    IF out.kind = "ok"
    THEN RefreshLoop([s EXCEPT !.fr[t].new_data[s.fr[t].addr] = out.val], t)
    ELSE IF s.fr[t].idx < Len(s.registers)
    THEN RefreshLoop(s, t)
    ELSE RefreshFail(s, t, out)

\* coordinator.py 149 / 151-153: a read of the cycle returned or raised.
RefreshRead(s, t, out) ==
    IF out.kind = "ok"
    THEN RefreshLoop([s EXCEPT !.fr[t].new_data[s.fr[t].addr] = out.val], t)
    ELSE RefreshFail(s, t, out)

\* History: a cycle in flight is marked as having had its list changed under
\* it, and the entry remove_register purged is purged from its data0.
MarkChanged(s, purged) ==
    [s EXCEPT !.fr = [u \in Tasks |->
                        IF s.fr[u].op = "refresh"
                        THEN [s.fr[u] EXCEPT
                                !.changed = TRUE,
                                !.data0 = [a \in Addrs |->
                                             IF a \in purged THEN None ELSE @[a]]]
                        ELSE s.fr[u]]]

InList(q, a) == \E i \in 1..Len(q) : q[i] = a

\* list.remove: drops the first occurrence.
RemoveFirst(q, a) ==
    LET k == CHOOSE i \in 1..Len(q) : q[i] = a /\ \A j \in 1..(i - 1) : q[j] # a
    IN  [i \in 1..(Len(q) - 1) |-> IF i < k THEN q[i] ELSE q[i + 1]]

\* Mutant of add_register: the coordinator is made available again.
add_register_Optimistic(s, address) ==
    IF ~InList(s.registers, address)
    THEN MarkChanged([s EXCEPT !.registers = Append(@, address),
                               !.available = TRUE],
                     {})
    ELSE [s EXCEPT !.available = TRUE]

\* Mutant of add_register: the address is appended without the membership
\* test.
add_register_Always(s, address) ==
    MarkChanged([s EXCEPT !.registers = Append(@, address)], {})

\* ACModbusCoordinator.add_register
add_register(s, address) ==
    IF ~InList(s.registers, address)
    THEN MarkChanged([s EXCEPT !.registers = Append(@, address)], {})
    ELSE s

\* ACModbusCoordinator.remove_register
remove_register(s, address) ==
    IF InList(s.registers, address)
    THEN MarkChanged([s EXCEPT !.registers = RemoveFirst(@, address),
                               !.data[address] = None],
                     {address})
    ELSE s

\* str(ex) of a raised condition.  asyncio.wait_for raises TimeoutError with
\* no argument (hub.py 297, re-raised as it is at 358 and 421), and a
\* TimeoutError of the transport has the transport's message; every other
\* condition the hub raises is built from a message.
str_of(out) ==
    CASE out.kind = "TimeoutError" ->
            IF out.msg = <<>> THEN "" ELSE out.msg[1]
      [] out.kind = "ValueError" -> "Verification mismatch"
      [] OTHER -> out.kind

\* ------------------------------------------------------ the scan service
\* services.py 180
range_size(start, end, step) == (end - start) \div step + 1

\* services.py 202-204: range(start, end + 1, step)'s next step.
ScanLoop(s, t) ==
    LET address == s.fr[t].cur
    IN  IF address < s.fr[t].end + 1
        THEN ReadBegin([s EXCEPT !.fr[t].cur = address + s.fr[t].step,
                                 !.fr[t].attempted = Append(@, address)],
                       t, address, "scan")
        ELSE Finish(s, t, Ret(None))

\* Mutant of ScanBegin: a scan of MAX_SCAN_RANGE registers is rejected too.
ScanBegin_Inclusive(s, t, start, end, step) ==
    LET s1 == [s EXCEPT !.fr[t] = [NoFrame EXCEPT !.op = "scan",
                                       !.start = start, !.end = end,
                                       !.step = step, !.cur = start]]
    IN  IF range_size(start, end, step) >= MAX_SCAN_RANGE
        THEN Finish(s1, t, Raise("ValueError"))
        ELSE ScanLoop(s1, t)

\* services.py 180-200
ScanBegin(s, t, start, end, step) ==
    LET s1 == [s EXCEPT !.fr[t] = [NoFrame EXCEPT !.op = "scan",
                                       !.start = start, !.end = end,
                                       !.step = step, !.cur = start]]
    IN  IF range_size(start, end, step) > MAX_SCAN_RANGE
        THEN Finish(s1, t, Raise("ValueError"))
        ELSE ScanLoop(s1, t)

\* Mutant of ScanRead: the first failed read ends the scan.
ScanRead_Abort(s, t, out) ==
    LET address == s.fr[t].addr
    IN  IF out.kind = "ok"
        THEN ScanLoop([s EXCEPT !.fr[t].results =
                          {p \in @ : p[1] # address} \cup {<<address, out.val>>}],
                      t)
        ELSE Finish([s EXCEPT !.fr[t].errors =
                        Append(@, [register |-> address,
                                   error |-> str_of(out)])],
                    t, Ret(None))

\* services.py 205 / 207-214: a read of the scan returned or raised.
ScanRead(s, t, out) ==
    LET address == s.fr[t].addr
    IN  IF out.kind = "ok"
        THEN ScanLoop([s EXCEPT !.fr[t].results =
                          {p \in @ : p[1] # address} \cup {<<address, out.val>>}],
                      t)
        ELSE ScanLoop([s EXCEPT !.fr[t].errors =
                          Append(@, [register |-> address,
                                     error |-> str_of(out)])],
                      t)

\* ------------------------------------------- returns into the callers
\* WriteRegisterResult, as <<verified, readback, error>>; the error is <<>>
\* for None and <<text>> for a description.
WriteRegisterResult(verified, readback, error) ==
    [kind |-> "ok", val |-> None, msg |-> <<verified, readback, error>>]

\* services.py 131-153: either except branch of the write service.
SvcFailed(s, t, ex) ==
    Finish(s, t, WriteRegisterResult(FALSE, None, <<str_of(ex)>>))

\* Mutant of SvcWritten: without verify the written value is the readback.
SvcWritten_Echo(s, t) ==
    LET s1 == [s EXCEPT !.fr[t].hubok = TRUE]
    IN  IF s.fr[t].verify
        THEN ReadBegin([s1 EXCEPT !.fr[t].runit = s.fr[t].wunit], t,
                       s.fr[t].waddr, "report")
        ELSE Finish(s1, t, WriteRegisterResult(TRUE, s.fr[t].value, <<>>))

\* services.py 116-129: hub.write_register returned; with verify the
\* reporting read goes out.
SvcWritten(s, t) ==
    LET s1 == [s EXCEPT !.fr[t].hubok = TRUE]
    IN  IF s.fr[t].verify
        THEN ReadBegin([s1 EXCEPT !.fr[t].runit = s.fr[t].wunit], t,
                       s.fr[t].waddr, "report")
        ELSE Finish(s1, t, WriteRegisterResult(TRUE, None, <<>>))

\* Mutant of SvcReportRead: the written value is reported, not the one read.
SvcReportRead_Echo(s, t, out) ==
    IF out.kind = "ok"
    THEN Finish(s, t, WriteRegisterResult(TRUE, s.fr[t].value, <<>>))
    ELSE SvcFailed(s, t, out)

\* services.py 120-129: the reporting read returned or raised.
SvcReportRead(s, t, out) ==
    IF out.kind = "ok"
    THEN Finish(s, t, WriteRegisterResult(TRUE, out.val, <<>>))
    ELSE SvcFailed(s, t, out)

\* Mutant of StoreWritten: the value is stored whether or not the write
\* succeeded.
StoreWritten_Always(s, t, out) ==
    Finish([s EXCEPT !.data[s.fr[t].waddr] = s.fr[t].value], t,
           IF out.kind = "ok" THEN Ret(None) ELSE out)

\* switch.py 95-101 and 110-116: the power switch's verified write returned
\* and the written value is put into the coordinator's cache, or the write
\* raised and so does the action.
StoreWritten(s, t, out) ==
    IF out.kind = "ok"
    THEN Finish([s EXCEPT !.data[s.fr[t].waddr] = s.fr[t].value], t, Ret(None))
    ELSE Finish(s, t, out)

\* switch.py 241-246, 255-260, 324-329 and 338-343, and the entities Home
\* Assistant is given for the power switch (switch.py 160-166, 171-177) and
\* the mode select (select.py 173-180): the verified write returned and the
\* coordinator is refreshed, or the write raised and so does the action.
AuxWritten(s, t, out) ==
    IF out.kind = "ok" THEN RefreshBegin(s, t) ELSE Finish(s, t, out)

\* write_register returns or raises `out` to its caller.
WriteDone(s, t, out) ==
    CASE s.fr[t].wctx = "svc" ->
            IF out.kind = "ok" THEN SvcWritten(s, t) ELSE SvcFailed(s, t, out)
      [] s.fr[t].wctx = "store" -> StoreWritten(s, t, out)
      [] s.fr[t].wctx = "aux" -> AuxWritten(s, t, out)
      [] OTHER -> Finish(s, t, out)

\* Mutant of VerifyRead: `expected or value`, which takes 0 for "not given".
VerifyRead_Falsy(s, t, out) ==
    LET f == s.fr[t]
        expected_value == IF f.expected \notin {None, 0}
                          THEN f.expected ELSE f.value
    IN  IF out.kind # "ok"
        THEN WriteDone(s, t, out)
        ELSE IF out.val # expected_value
        THEN WriteDone(record_error(s, t, "Verification mismatch"), t,
                       RaiseMsg("ValueError",
                                <<f.waddr, f.value, expected_value, out.val>>))
        ELSE WriteDone(s, t, Ret(1))

\* hub.py 435-446: the verify read returned `out`.
VerifyRead(s, t, out) ==
    LET f == s.fr[t]
        expected_value == IF f.expected # None THEN f.expected ELSE f.value
    IN  IF out.kind # "ok"
        THEN WriteDone(s, t, out)
        ELSE IF out.val # expected_value
        THEN WriteDone(record_error(s, t, "Verification mismatch"), t,
                       RaiseMsg("ValueError",
                                <<f.waddr, f.value, expected_value, out.val>>))
        ELSE WriteDone(s, t, Ret(1))

\* read_register returns or raises `out` to its caller.
ReadDone(s, t, out) ==
    CASE s.fr[t].rctx = "verify" -> VerifyRead(s, t, out)
      [] s.fr[t].rctx = "refresh" -> RefreshRead(s, t, out)
      [] s.fr[t].rctx = "scan" -> ScanRead(s, t, out)
      [] s.fr[t].rctx = "report" -> SvcReportRead(s, t, out)
      [] OTHER -> Finish(s, t, out)

\* connect returns `ok` to its caller: hub.py 263 with 332-338 or 396-402,
\* or the task that called connect().
ConnectDone(s, t, ok) ==
    LET r == [s EXCEPT !.fr[t].cctx = "none", !.fr[t].b0 = None,
                       !.fr[t].tested = "none", !.fr[t].closed = "none"]
    IN  CASE s.fr[t].cctx = "ensure_read" ->
                IF ok THEN ReadAcquire(r, t)
                ELSE ReadDone(r, t, Raise("ModbusReadError"))
          [] s.fr[t].cctx = "ensure_write" ->
                IF ok THEN WriteAcquire(r, t)
                ELSE WriteDone(r, t, Raise("ModbusWriteError"))
          [] OTHER -> Finish(s, t, Ret(IF ok THEN 1 ELSE 0))

\* ------------------------------------------------ transport responses
\* hub.py 175-179, 202-205 and 212-223: every failing path of connect.
ConnectFail(s, t, error) ==
    ConnectDone(Release(record_error([s EXCEPT !.connected = FALSE,
                                               !.backoff_count = @ + 1],
                                     t, error)),
                t, FALSE)

\* Mutant of ConnectSucceed: the backoff count is left as it was.
ConnectSucceed_KeepBackoff(s, t) ==
    ConnectDone(Release([s EXCEPT !.connected = TRUE]), t, TRUE)

\* hub.py 207-210
ConnectSucceed(s, t) ==
    ConnectDone(Release([s EXCEPT !.connected = TRUE, !.backoff_count = 0]),
                t, TRUE)

\* hub.py 196-205: which answers to the test read let connect go on.
TestReadPasses(o) == o \in {"ok", "error"}

\* hub.py 189-210: the test read answered, or its call raised.
OnTestResp(s, t, o) ==
    LET s1 == [s EXCEPT !.fr[t].tested = o]
    IN  IF TestReadPasses(o)
        THEN ConnectSucceed(s1, t)
        ELSE ConnectFail(s1, t, "Test read failed")

\* hub.py 170-205: client.connect() answered; on success the test read of
\* register 1033 is made, always with the device_id convention.  An adapter
\* that takes it has the request and the task waits for the answer; any
\* other raises TypeError as it is called, which the `except Exception` of
\* the test read catches there and then.
OnConnectResp(s, t, o) ==
    CASE o = "ok" ->
            IF Accepts(s, "read_holding_registers", "device_id")
            THEN [s EXCEPT !.pc[t] = "test_wait"]
            ELSE OnTestResp(s, t, "typeerror")
      [] o = "false" -> ConnectFail(s, t, "connect() returned False")
      [] o = "timeout" -> ConnectFail(s, t, "Connection timeout")
      [] OTHER -> ConnectFail(s, t, "connect raised")

\* A request ends in a TimeoutError two ways: asyncio.wait_for gives up on it
\* ("timeout": TimeoutError(), hub.py 297), or the transport's call raises
\* one of its own, which wait_for passes on ("timeout_raised": the exception
\* carries the transport's message).  The hub handles both alike (hub.py
\* 356-359, 419-422) and re-raises the exception as it is.
Timeouts == {"timeout", "timeout_raised"}
AnswerKind(o) == IF o \in Timeouts THEN "timeout" ELSE o
TimeoutRaised(o) ==
    IF o = "timeout" THEN Raise("TimeoutError")
    ELSE RaiseMsg("TimeoutError", <<"timed out">>)

\* The register's value in the device; a register outside the ones the
\* model follows holds 0.
device_value(s, address) ==
    IF address \in Addrs THEN s.dev[address] ELSE 0

\* Mutant of OnReadResp: a timeout is wrapped into the read failure.
OnReadResp_WrapTimeout(s, t, o) ==
    LET address == s.fr[t].addr
        r == [Release(s) EXCEPT !.fr[t].answer = AnswerKind(o)]
    IN  CASE o = "ok" ->
                ReadDone([r EXCEPT !.fr[t].got = device_value(s, address)], t,
                         Ret(device_value(s, address)))
          [] o = "error" ->
                ReadDone(record_error(r, t, "Read error"), t,
                         Raise("ModbusReadError"))
          [] o \in Timeouts ->
                ReadDone(record_error(
                            [r EXCEPT !.connected = FALSE,
                                      !.linkLost = IF s.fr[t].rctx = "refresh"
                                                   THEN "clean" ELSE @],
                            t, "Read timeout"),
                         t, Raise("ModbusReadError"))
          [] o = "connexc" ->
                ReadDone(record_error([r EXCEPT !.connected = FALSE],
                                      t, "Connection lost"),
                         t, Raise("ModbusReadError"))
          [] o = "typeerror" -> \* hub.py 299-303: on to the next convention
                call_modbus([s EXCEPT !.fr[t].answer = o], t,
                            "read_holding_registers", Len(s.fr[t].tried) + 1)
          [] OTHER -> \* hub.py 366-368: another exception
                ReadDone(record_error(r, t, "Read failed"), t,
                         Raise("ModbusReadError"))

\* hub.py 346-368: the read answered.
OnReadResp(s, t, o) ==
    LET address == s.fr[t].addr
        r == [Release(s) EXCEPT !.fr[t].answer = AnswerKind(o)]
    IN  CASE o = "ok" ->
                ReadDone([r EXCEPT !.fr[t].got = device_value(s, address)], t,
                         Ret(device_value(s, address)))
          [] o = "error" ->
                ReadDone(record_error(r, t, "Read error"), t,
                         Raise("ModbusReadError"))
          [] o \in Timeouts ->
                ReadDone(record_error(
                            [r EXCEPT !.connected = FALSE,
                                      !.linkLost = IF s.fr[t].rctx = "refresh"
                                                   THEN "clean" ELSE @],
                            t, "Read timeout"),
                         t, TimeoutRaised(o))
          [] o = "connexc" ->
                ReadDone(record_error([r EXCEPT !.connected = FALSE],
                                      t, "Connection lost"),
                         t, Raise("ModbusReadError"))
          [] o = "typeerror" -> \* hub.py 299-303: on to the next convention
                call_modbus([s EXCEPT !.fr[t].answer = o], t,
                            "read_holding_registers", Len(s.fr[t].tried) + 1)
          [] OTHER -> \* hub.py 366-368: another exception
                ReadDone(record_error(r, t, "Read failed"), t,
                         Raise("ModbusReadError"))

\* Mutant of AfterWrite: the verify read goes out under the write's lock.
AfterWrite_HoldLock(s, t) ==
    IF s.fr[t].verify
    THEN ReadLocked([s EXCEPT !.fr[t].addr = s.fr[t].waddr,
                              !.fr[t].rctx = "verify",
                              !.fr[t].runit = s.fr[t].wunit,
                              !.waitq = IF s.lock = 0 THEN @
                                        ELSE <<s.lock>> \o @,
                              !.lock = t],
                    t)
    ELSE WriteDone(s, t, Ret(1))

\* Mutant of AfterWrite: the verify read is made inside the write's
\* `async with`, so it asks for the lock its own task holds.
AfterWrite_Reentrant(s, t) ==
    IF s.fr[t].verify
    THEN ReadBegin([s EXCEPT !.fr[t].runit = s.fr[t].wunit,
                             !.waitq = IF s.lock = 0 THEN @
                                       ELSE <<s.lock>> \o @,
                             !.lock = t],
                   t, s.fr[t].waddr, "verify")
    ELSE WriteDone(s, t, Ret(1))

\* hub.py 433-446: after the write, the lock released.
AfterWrite(s, t) ==
    IF s.fr[t].verify
    THEN ReadBegin([s EXCEPT !.fr[t].runit = s.fr[t].wunit], t,
                   s.fr[t].waddr, "verify")
    ELSE WriteDone(s, t, Ret(1))

\* hub.py 410-446: the write answered.
OnWriteResp(s, t, o) ==
    LET f == s.fr[t]
        r == [Release(s) EXCEPT !.fr[t].answer = AnswerKind(o)]
    IN  CASE o = "ok" ->
                AfterWrite(
                    [r EXCEPT
                       !.dev[f.waddr] = f.value,
                       !.fr = [u \in Tasks |->
                                 IF u = t
                                 THEN [@[u] EXCEPT !.stored = TRUE,
                                                   !.written = TRUE]
                                 ELSE [@[u] EXCEPT
                                         !.overwritten =
                                            \/ @
                                            \/ /\ s.fr[u].stored
                                               /\ s.fr[u].waddr = f.waddr
                                               /\ s.fr[u].value # f.value,
                                         !.touched =
                                            \/ @
                                            \/ /\ s.fr[u].written
                                               /\ s.fr[u].waddr = f.waddr]]],
                    t)
          [] o = "ok_nostore" ->
                AfterWrite([r EXCEPT !.fr[t].written = TRUE], t)
          [] o = "error" ->
                WriteDone(record_error(r, t, "Write error"), t,
                          Raise("ModbusWriteError"))
          [] o \in Timeouts ->
                WriteDone(record_error([r EXCEPT !.connected = FALSE],
                                       t, "Write timeout"),
                          t, TimeoutRaised(o))
          [] o = "connexc" ->
                WriteDone(record_error([r EXCEPT !.connected = FALSE],
                                       t, "Connection lost"),
                          t, Raise("ModbusWriteError"))
          [] o = "typeerror" -> \* hub.py 299-303: on to the next convention
                call_modbus([s EXCEPT !.fr[t].answer = o], t,
                            "write_register", Len(s.fr[t].tried) + 1)
          [] OTHER -> \* hub.py 429-431: another exception
                WriteDone(record_error(r, t, "Write failed"), t,
                          Raise("ModbusWriteError"))

\* client.close() returns or raises.
CloseOutcomes == {"ok", "raises"}

\* Mutant of DisconnectLocked: what close() raises is not suppressed.
DisconnectLocked_NoSuppress(s, t, c) ==
    IF s.client /\ c = "raises"
    THEN Finish(Release([s EXCEPT !.fr[t].closed = c]), t, Raise("Exception"))
    ELSE Finish(Release([s EXCEPT !.client = FALSE, !.connected = FALSE,
                                  !.live = IF s.client THEN @ - 1 ELSE @,
                                  !.fr[t].closed =
                                      IF s.client THEN c ELSE "absent"]),
                t, Ret(None))

\* Mutant of DisconnectLocked: disconnect clears the backoff count as well.
DisconnectLocked_ResetBackoff(s, t, c) ==
    Finish(Release([s EXCEPT !.client = FALSE, !.connected = FALSE,
                             !.backoff_count = 0,
                             !.live = IF s.client THEN @ - 1 ELSE @,
                             !.fr[t].closed =
                                 IF s.client THEN c ELSE "absent"]),
           t, Ret(None))

\* hub.py 227-233, the lock held; close() answers c and what it raises is
\* suppressed.
DisconnectLocked(s, t, c) ==
    Finish(Release([s EXCEPT !.client = FALSE, !.connected = FALSE,
                             !.live = IF s.client THEN @ - 1 ELSE @,
                             !.fr[t].closed =
                                 IF s.client THEN c ELSE "absent"]),
           t, Ret(None))

\* hub.py 227
DisconnectBegin(s, t, c) ==
    IF LockFree(s)
    THEN DisconnectLocked([s EXCEPT !.lock = t], t, c)
    ELSE Enqueue(s, t, "disc_lock")

\* A task that waited for the lock holds it now and runs on.  With no client
\* left, getattr(self._client, ...) raises (hub.py 279), which read_register
\* and write_register wrap (hub.py 366-368, 429-431).
Resumed(s, t, c) ==
    CASE s.pc[t] = "conn_lock" -> ConnectLocked(s, t)
      [] s.pc[t] = "disc_lock" -> DisconnectLocked(s, t, c)
      [] s.pc[t] = "read_lock" ->
            IF s.client THEN ReadLocked(s, t)
            ELSE ReadDone(record_error(Release(s), t, "Read failed"), t,
                          Raise("ModbusReadError"))
      [] OTHER ->
            IF s.client THEN WriteLocked(s, t)
            ELSE WriteDone(record_error(Release(s), t, "Write failed"), t,
                           Raise("ModbusWriteError"))

\* The task begins a call: fresh locals.
Begin(s, t, op) == [s EXCEPT !.fr[t] = [NoFrame EXCEPT !.op = op]]

\* Mutant of AuxBegin: only a cached power value of 0 stops the action.
AuxBegin_AbsentPasses(s, t, address, v) ==
    LET power_value == get_register_of(s, REGISTER_POWER)
        s1 == Begin(s, t, "aux")
    IN  IF power_value = 0
        THEN Finish(s1, t, Ret(None))
        ELSE WriteBegin(s1, t, address, v, TRUE, None, "aux")

\* switch.py 234-245 and 317-328: turn_on and turn_off of the home/away and
\* humidify switches, up to the first suspension.
AuxBegin(s, t, address, v) ==
    LET power_value == get_register_of(s, REGISTER_POWER)
        s1 == Begin(s, t, "aux")
    IN  IF power_value # 1
        THEN Finish(s1, t, Ret(None))
        ELSE WriteBegin(s1, t, address, v, TRUE, None, "aux")


\* ------------------------------------------------------------- actions
LockWaits == {"conn_lock", "disc_lock", "read_lock", "write_lock"}
InFlight == {"conn_wait", "test_wait", "read_wait", "write_wait"}

\* The device as the test fixture sets it up (conftest.py 69-75).
DevInit ==
    [a \in Addrs |-> IF a \in {REGISTER_POWER, REGISTER_MODE} THEN 1 ELSE 0]

ReadInputs == {REGISTER_POWER}
WriteInputs == {REGISTER_POWER}
ListInputs == {REGISTER_MODE}

\* The state after ModbusHub.__init__ and ACModbusCoordinator.__init__.
InitState ==
    /\ unit_id = DEFAULT_UNIT_ID
    /\ client = FALSE
    /\ live = 0
    /\ connected = FALSE
    /\ backoff_count = 0
    /\ last_error = ""
    /\ lock = 0
    /\ waitq = <<>>
    /\ registers = DefaultRegisters
    /\ data = NoData
    /\ available = TRUE
    /\ consecutive_errors = 0
    /\ last_update_time = 0
    /\ dev = DevInit
    /\ linkLost = "none"
    /\ pc = [t \in Tasks |-> "idle"]
    /\ fr = [t \in Tasks |-> NoFrame]
    /\ res = NoRes

\* ... over an adapter taking one convention for reads and writes alike, with
\* `spent` of the fault budget used up.
InitHub(adapters, spent, backoffs) ==
    /\ InitState
    /\ adapter \in adapters
    /\ wadapter = adapter
    /\ reconnect_backoff \in backoffs
    /\ faults = spent
    /\ config = NoConfig

InitFrom(adapters, spent) ==
    InitHub(adapters, spent, {DEFAULT_RECONNECT_BACKOFF})

InitWith(adapters) == InitFrom(adapters, 0)

Init == InitWith(Adapters)
InitDevice == InitWith({"device_id"})

\* A failing answer is an injected fault, drawn from the run's budget.
Answer(o) == IF o = "ok" THEN Cur ELSE Fault(Cur)
MayAnswer(o) == o = "ok" \/ faults < MaxFaults

StartConnect(t) ==
    /\ pc[t] = "idle"
    /\ backoff_count < MaxBackoff
    /\ Apply(ConnectBegin(Intervene(Begin(Cur, t, "connect")), t, "top"))

StartDisconnect(t) ==
    /\ pc[t] = "idle"
    /\ \E c \in CloseOutcomes :
          Apply(DisconnectBegin(Intervene(Begin(Cur, t, "disconnect")), t, c))

StartRead(t) ==
    /\ pc[t] = "idle"
    /\ backoff_count < MaxBackoff
    /\ \E a \in ReadInputs :
          Apply(ReadBegin(Begin(Cur, t, "read"), t, a, "top"))

StartWrite(t) ==
    /\ pc[t] = "idle"
    /\ backoff_count < MaxBackoff
    /\ \E a \in WriteInputs, v \in Values, ver \in BOOLEAN,
          exp \in {None, 0} :
          Apply(WriteBegin(Begin(Cur, t, "write"), t, a, v, ver, exp, "top"))

\* The unit-id overrides a caller gives: none, unit 0, another unit.
UnitInputs == {None, 0, 3}

\* read_register with a unit_id argument.
StartReadUnit(t) ==
    /\ pc[t] = "idle"
    /\ backoff_count < MaxBackoff
    /\ \E a \in ReadInputs, u \in UnitInputs :
          Apply(ReadBegin([Begin(Cur, t, "read") EXCEPT !.fr[t].runit = u],
                          t, a, "top"))

\* write_register with a unit_id argument.
StartWriteUnit(t) ==
    /\ pc[t] = "idle"
    /\ backoff_count < MaxBackoff
    /\ \E a \in WriteInputs, v \in Values, ver \in BOOLEAN,
          u \in UnitInputs :
          Apply(WriteBegin([Begin(Cur, t, "write") EXCEPT !.fr[t].wunit = u],
                           t, a, v, ver, None, "top"))

StartReconnect(t) ==
    /\ pc[t] = "idle"
    /\ backoff_count <= MaxBackoff
    /\ Apply(ReconnectBegin(Intervene(Begin(Cur, t, "reconnect")), t))

\* asyncio.sleep(delay) returns.
Wake(t) ==
    /\ pc[t] = "sleeping"
    /\ Apply(ReconnectConnect(Cur, t))

\* The write service is called; its verify defaults to True.
StartWriteSvc(t) ==
    /\ pc[t] = "idle"
    /\ backoff_count < MaxBackoff
    /\ \E a \in WriteInputs, v \in Values, ver \in BOOLEAN,
          exp \in {None, 0} :
          Apply(WriteBegin(Begin(Cur, t, "wsvc"), t, a, v, ver, exp, "svc"))

\* ACModbusPowerSwitch.async_turn_on (1) and async_turn_off (0).
StartPowerSwitch(t) ==
    /\ pc[t] = "idle"
    /\ backoff_count < MaxBackoff
    /\ \E v \in {0, 1} :
          Apply(WriteBegin(Begin(Cur, t, "power"), t, REGISTER_POWER, v,
                           TRUE, None, "store"))

\* switch.py 157-177: HAPowerSwitchEntity.async_turn_on and async_turn_off,
\* up to the first suspension.  The verified write of register 1033 is begun;
\* when it has returned the coordinator is refreshed, and the written value
\* is not put into the cache.
HAPowerBegin(s, t, v) ==
    WriteBegin(Begin(s, t, "hapower"), t, REGISTER_POWER, v, TRUE, None, "aux")

\* HAPowerSwitchEntity.async_turn_on (1) and async_turn_off (0).
StartHAPowerSwitch(t) ==
    /\ pc[t] = "idle"
    /\ backoff_count < MaxBackoff
    /\ consecutive_errors < MaxErrors
    /\ last_update_time < MaxStamp
    /\ \E v \in {0, 1} : Apply(HAPowerBegin(Cur, t, v))

\* The register values of the modes the select offers (const.py 33-38), two
\* of them.
ModeValues == {1, 2}

\* select.py 94-116: ACModbusModeSelect.async_select_option with a valid
\* option, up to the first suspension: the verified write of register 1041
\* is begun whatever the cache holds for the power register.
ModeBegin(s, t, register_value) ==
    WriteBegin(Begin(s, t, "mode"), t, REGISTER_MODE, register_value, TRUE,
               None, "store")

StartModeSelect(t) ==
    /\ pc[t] = "idle"
    /\ backoff_count < MaxBackoff
    /\ \E v \in ModeValues : Apply(ModeBegin(Cur, t, v))

\* select.py 165-181: HAModeSelectEntity.async_select_option with a valid
\* option, up to the first suspension: the same write with no look at the
\* power register; when it has returned the coordinator is refreshed.
HAModeBegin(s, t, register_value) ==
    WriteBegin(Begin(s, t, "hamode"), t, REGISTER_MODE, register_value, TRUE,
               None, "aux")

StartHAModeSelect(t) ==
    /\ pc[t] = "idle"
    /\ backoff_count < MaxBackoff
    /\ consecutive_errors < MaxErrors
    /\ last_update_time < MaxStamp
    /\ \E v \in ModeValues : Apply(HAModeBegin(Cur, t, v))

\* The registers of the home/away and humidify switches.
AuxRegisters == {REGISTER_HOME_AWAY, REGISTER_HUMIDIFY}

\* async_turn_on (1) and async_turn_off (0) of an auxiliary switch.
StartAuxSwitch(t) ==
    /\ pc[t] = "idle"
    /\ backoff_count < MaxBackoff
    /\ consecutive_errors < MaxErrors
    /\ last_update_time < MaxStamp
    /\ \E a \in AuxRegisters, v \in {0, 1} : Apply(AuxBegin(Cur, t, a, v))

StartRefresh(t) ==
    /\ pc[t] = "idle"
    /\ \A u \in Tasks : fr[u].op # "refresh"
    /\ consecutive_errors < MaxErrors
    /\ last_update_time < MaxStamp
    /\ Apply(RefreshBegin(Cur, t))

\* async_refresh is called, whether or not an earlier cycle is still in
\* flight: nothing in the coordinator keeps cycles apart.
StartRefreshAny(t) ==
    /\ pc[t] = "idle"
    /\ consecutive_errors < MaxErrors
    /\ last_update_time < MaxStamp
    /\ Apply(RefreshBegin(Cur, t))

\* A call of the coordinator that returns in the step it is made in.
Returned(s, op, address) ==
    [s EXCEPT !.res = [NoRes EXCEPT !.op = op, !.val = address]]

AddRegister == \E a \in ListInputs : Apply(add_register(Cur, a))

RemoveRegister ==
    \E a \in ListInputs :
        Apply(Returned(remove_register(Cur, a), "remove_register", a))

\* The unit changes state by itself (its own panel or remote control); an
\* event of the environment, drawn from the same budget as the faults.
DeviceChange ==
    \E v \in Values :
        /\ v # dev[REGISTER_POWER]
        /\ faults < MaxFaults
        /\ Apply([Cur EXCEPT !.dev[REGISTER_POWER] = v, !.faults = @ + 1])

StartScan(t) ==
    /\ pc[t] = "idle"
    /\ \A u \in Tasks : fr[u].op # "scan"
    /\ backoff_count < MaxBackoff
    /\ \E start \in ScanStarts, span \in 0..MaxSpan, step \in 1..MaxStep :
          Apply(ScanBegin(Cur, t, start, start + span, step))

\* Scans at the limit: MAX_SCAN_RANGE registers and one more, by step 1 and 2.
WideScans ==
    {<<MAX_SCAN_RANGE - 1, 1>>, <<MAX_SCAN_RANGE, 1>>,
     <<2 * MAX_SCAN_RANGE - 1, 2>>, <<2 * MAX_SCAN_RANGE, 2>>}

StartScanWide(t) ==
    /\ pc[t] = "idle"
    /\ \A u \in Tasks : fr[u].op # "scan"
    /\ backoff_count < MaxBackoff
    /\ \E w \in WideScans :
          Apply(ScanBegin(Cur, t, REGISTER_POWER, REGISTER_POWER + w[1], w[2]))

\* A scan of one register or of two.
StartScanShort(t) ==
    /\ pc[t] = "idle"
    /\ \A u \in Tasks : fr[u].op # "scan"
    /\ backoff_count < MaxBackoff
    /\ \E end \in {REGISTER_POWER, REGISTER_POWER + 1} :
          Apply(ScanBegin(Cur, t, REGISTER_POWER, end, 1))

Resume(t) ==
    /\ pc[t] \in LockWaits
    /\ lock = t
    /\ \E c \in CloseOutcomes : Apply(Resumed(Cur, t, c))

ConnResp(t) ==
    /\ pc[t] = "conn_wait"
    /\ \E o \in {"ok", "false", "timeout", "exc"} :
          MayAnswer(o) /\ Apply(OnConnectResp(Answer(o), t, o))

\* The transport answers the test read.
TestResp(t) ==
    /\ pc[t] = "test_wait"
    /\ \E o \in {"ok", "error", "timeout", "exc"} :
          MayAnswer(o) /\ Apply(OnTestResp(Answer(o), t, o))

\* The answers of the transport to a request it was sent.
ReadAnswers ==
    {"ok", "error", "timeout", "timeout_raised", "connexc", "exc", "typeerror"}
WriteAnswers == ReadAnswers \cup {"ok_nostore"}

\* The transport answers the read.
ReadResp(t) ==
    /\ pc[t] = "read_wait"
    /\ \E o \in ReadAnswers :
          MayAnswer(o) /\ Apply(OnReadResp(Answer(o), t, o))

\* The transport answers the write.
WriteResp(t) ==
    /\ pc[t] = "write_wait"
    /\ \E o \in WriteAnswers :
          MayAnswer(o) /\ Apply(OnWriteResp(Answer(o), t, o))

Progress(t) ==
    \/ Resume(t)
    \/ ConnResp(t)
    \/ TestResp(t)
    \/ ReadResp(t)

\* The hub under concurrent callers.
NextHub ==
    \E t \in Tasks :
        \/ StartConnect(t)
        \/ StartDisconnect(t)
        \/ StartRead(t)
        \/ StartWrite(t)
        \/ WriteResp(t)
        \/ Progress(t)

Spec == InitDevice /\ [][NextHub]_vars

\* The coordinator over the hub.
NextCoord ==
    \/ DeviceChange
    \/ AddRegister
    \/ RemoveRegister
    \/ \E t \in Tasks :
        \/ StartConnect(t)
        \/ StartRefresh(t)
        \/ Progress(t)

SpecCoord == InitDevice /\ [][NextCoord]_vars

\* The scan service over the hub.
NextScan ==
    \E t \in Tasks :
        \/ StartConnect(t)
        \/ StartDisconnect(t)
        \/ StartScan(t)
        \/ Progress(t)

SpecScan == InitDevice /\ [][NextScan]_vars

\* The write service over the hub.
NextSvc ==
    \E t \in Tasks :
        \/ StartWriteSvc(t)
        \/ WriteResp(t)
        \/ Progress(t)

SpecSvc == InitDevice /\ [][NextSvc]_vars

\* The scan service at its limit.
NextLimit ==
    \E t \in Tasks :
        \/ StartConnect(t)
        \/ StartScanWide(t)
        \/ Progress(t)

\* A scan at the limit is followed with one fault left in the budget.
InitLimit == InitFrom({"device_id"}, MaxFaults - 1)

SpecLimit == InitLimit /\ [][NextLimit]_vars

\* The coordinator beside the hub's other callers, over a transport that
\* answers every call.
NextMix ==
    \/ AddRegister
    \/ RemoveRegister
    \/ \E t \in Tasks :
        \/ StartRefresh(t)
        \/ StartRead(t)
        \/ StartWrite(t)
        \/ StartScanShort(t)
        \/ WriteResp(t)
        \/ Progress(t)

InitQuiet == InitFrom({"device_id"}, MaxFaults)

SpecMix == InitQuiet /\ [][NextMix]_vars

\* The hub with reconnect(), for several configured backoffs.
Backoffs == {DEFAULT_RECONNECT_BACKOFF, LongBackoff}

InitBackoffs == InitHub({"device_id"}, 0, Backoffs)

NextReconnect ==
    \E t \in Tasks :
        \/ StartReconnect(t)
        \/ Wake(t)
        \/ StartRead(t)
        \/ StartWrite(t)
        \/ WriteResp(t)
        \/ Progress(t)

SpecReconnect == InitBackoffs /\ [][NextReconnect]_vars

\* The hub over every adapter: read_holding_registers and write_register each
\* take one convention, or none at all.  One fault is left in the budget.
InitConv ==
    /\ InitState
    /\ adapter \in Adapters
    /\ wadapter \in Adapters
    /\ reconnect_backoff = DEFAULT_RECONNECT_BACKOFF
    /\ faults = MaxFaults - 1
    /\ config = NoConfig

NextConv ==
    \E t \in Tasks :
        \/ StartConnect(t)
        \/ StartRead(t)
        \/ StartWrite(t)
        \/ WriteResp(t)
        \/ Progress(t)

SpecConv == InitConv /\ [][NextConv]_vars

\* The hub's callers giving unit-id overrides, over a transport that answers
\* every call.
NextUnit ==
    \E t \in Tasks :
        \/ StartReadUnit(t)
        \/ StartWriteUnit(t)
        \/ WriteResp(t)
        \/ Progress(t)

SpecUnit == InitQuiet /\ [][NextUnit]_vars

\* The switches over the coordinator and the hub, over a transport that
\* answers every call.
NextSwitch ==
    \E t \in Tasks :
        \/ StartPowerSwitch(t)
        \/ StartHAPowerSwitch(t)
        \/ StartAuxSwitch(t)
        \/ StartRefresh(t)
        \/ WriteResp(t)
        \/ Progress(t)

SpecSwitch == InitQuiet /\ [][NextSwitch]_vars

\* The mode select over the coordinator and the hub, over a transport that
\* answers every call.
NextSelect ==
    \E t \in Tasks :
        \/ StartModeSelect(t)
        \/ StartHAModeSelect(t)
        \/ StartRefresh(t)
        \/ WriteResp(t)
        \/ Progress(t)

SpecSelect == InitQuiet /\ [][NextSelect]_vars

\* The inputs the form is submitted with: each key given or left out.
HostInputs ==
    {PyStr(<<>>), PyStr(<<" ">>), PyStr(<<"\t">>), PyStr(<<"h">>),
     PyStr(<<" ", "h", "\n">>), PyInt(0), PyInt(1), NoneValue}
PortInputs ==
    {PyInt(0 - 1), PyInt(0), PyInt(1), PyInt(DEFAULT_PORT), PyInt(65535), PyInt(65536),
     PyFloat(DEFAULT_PORT), PyStr(<<"5">>), NoneValue}
PollInputs ==
    {PyInt(0 - 1), PyInt(3), PyInt(MIN_POLL_INTERVAL), PyInt(DEFAULT_POLL_INTERVAL),
     PyFloat(3), PyFloat(MIN_POLL_INTERVAL), PyStr(<<"5">>), NoneValue}
TimeoutInputs ==
    {PyInt(0 - 1), PyInt(DEFAULT_TIMEOUT), PyInt(MIN_POLL_INTERVAL),
     PyInt(DEFAULT_POLL_INTERVAL), PyInt(15), PyFloat(DEFAULT_TIMEOUT),
     PyStr(<<"3">>), PyStr(<<"5", "1">>), NoneValue}

\* Nothing (the key is left out) or one value of S.
Opt(S) == {{}} \cup {{x} : x \in S}
The(S) == CHOOSE x \in S : TRUE

Dict(hs, ps, is, os) ==
    LET given == [host |-> hs, port |-> ps, poll_interval |-> is,
                  timeout |-> os]
    IN  [k \in {k \in ConfKeys : given[k] # {}} |-> The(given[k])]

UserInputs ==
    {Dict(hs, ps, is, os) : hs \in Opt(HostInputs), ps \in Opt(PortInputs),
                            is \in Opt(PollInputs), os \in Opt(TimeoutInputs)}

\* The state the hub and the coordinator stay in while the form is filled.
Machine ==
    <<client, live, connected, backoff_count, last_error, lock, waitq,
      registers, data, available, consecutive_errors, last_update_time, dev, adapter,
      wadapter, reconnect_backoff, unit_id, faults, linkLost, pc, fr, res>>

InitConfig ==
    /\ InitState
    /\ adapter = "device_id"
    /\ wadapter = "device_id"
    /\ reconnect_backoff = DEFAULT_RECONNECT_BACKOFF
    /\ faults = 0
    /\ \E u \in UserInputs : config = [NoConfig EXCEPT !.input = u]

\* The form is submitted and its input validated.
Validate ==
    /\ ~config.done
    /\ LET out == validate_input(config.input)
       IN  config' = [config EXCEPT
                        !.errors = IF out.kind = "ok" THEN out.val ELSE {},
                        !.raised = IF out.kind = "ok" THEN "" ELSE out.kind,
                        !.done = TRUE]
    /\ UNCHANGED Machine

SpecConfig == InitConfig /\ [][Validate]_vars

\* The power switch beside the coordinator's refresh, with one fault left in
\* the budget.
NextPower ==
    \E t \in Tasks :
        \/ StartPowerSwitch(t)
        \/ StartHAPowerSwitch(t)
        \/ StartRefresh(t)
        \/ WriteResp(t)
        \/ Progress(t)

SpecPower == InitLimit /\ [][NextPower]_vars

\* The coordinator with refresh cycles that may overlap, with one fault left
\* in the budget.
NextOverlap ==
    \E t \in Tasks :
        \/ StartConnect(t)
        \/ StartRefreshAny(t)
        \/ Progress(t)

SpecOverlap == InitLimit /\ [][NextOverlap]_vars

\* Every operation of the hub and its callers, under the scheduling the code
\* runs with: the event loop runs every task that is ready, the lock is
\* handed on in arrival order, and every transport call is bounded by
\* wait_for, so it returns or times out.
\* The calls are a verified write, a scan of two registers and a refresh
\* cycle begun below LiveCycles successes and failures, with one fault left
\* in the budget.
StartWriteVerified(t) ==
    /\ pc[t] = "idle"
    /\ backoff_count < MaxBackoff
    /\ Apply(WriteBegin(Begin(Cur, t, "write"), t, REGISTER_POWER, 0, TRUE,
                        None, "top"))

StartScanPair(t) ==
    /\ pc[t] = "idle"
    /\ backoff_count < MaxBackoff
    /\ Apply(ScanBegin(Cur, t, REGISTER_POWER, REGISTER_POWER + 1, 1))

StartRefreshFirst(t) ==
    /\ pc[t] = "idle"
    /\ \A u \in Tasks : fr[u].op # "refresh"
    /\ consecutive_errors < LiveCycles
    /\ last_update_time < LiveCycles
    /\ Apply(RefreshBegin(Cur, t))

NextLive ==
    \E t \in Tasks :
        \/ StartConnect(t)
        \/ StartDisconnect(t)
        \/ StartRead(t)
        \/ StartWriteVerified(t)
        \/ StartScanPair(t)
        \/ StartRefreshFirst(t)
        \/ WriteResp(t)
        \/ Progress(t)

\* A task that is ready runs: its transport call answers, or it takes the
\* lock it was handed.
Fairness == \A t \in Tasks : WF_vars(Progress(t) \/ WriteResp(t))

SpecLive == InitLimit /\ [][NextLive]_vars /\ Fairness

\* The power switch beside refresh cycles that may overlap, over a transport
\* that answers every call.
NextStale ==
    \E t \in Tasks :
        \/ StartPowerSwitch(t)
        \/ StartHAPowerSwitch(t)
        \/ StartRefreshAny(t)
        \/ WriteResp(t)
        \/ Progress(t)

SpecStale == InitQuiet /\ [][NextStale]_vars

TypeOK ==
    /\ client \in BOOLEAN
    /\ connected \in BOOLEAN
    /\ backoff_count \in Nat
    /\ lock \in Tasks \cup {0}
    /\ \A t \in Tasks :
          pc[t] \in {"idle", "sleeping"} \cup LockWaits \cup InFlight

\* ------------------------------------------------------------- claims
RefreshDone == res.op = "refresh"
RefreshFailed == RefreshDone /\ res.msg # <<>>
RefreshSucceeded == RefreshDone /\ res.kind = "ok" /\ res.msg = <<>>
TrackedNow == {registers[i] : i \in 1..Len(registers)}

\* C1: when a refresh cycle has failed, whichever read failed, the cache is
\* what it was before the cycle (less the entries remove_register purged in
\* the meantime) and so is the timestamp: nothing the cycle read is in it.
C1_FailedCycleKeepsCache ==
    RefreshFailed =>
        /\ data = res.frame.data0
        /\ last_update_time = res.frame.stamp0

\* C1's case: a cycle failed after reading a value the cache does not hold.
C1_Witness ==
    /\ RefreshFailed
    /\ \E a \in Addrs :
          /\ res.frame.new_data[a] # None
          /\ data[a] # None
          /\ res.frame.new_data[a] # data[a]

\* C2: when a refresh cycle has read every register, and the tracked list
\* did not change during it, the cache holds exactly the tracked addresses,
\* each with the value the cycle read (the device's value, for a register the
\* device did not change meanwhile); available is true, the error count 0
\* and the timestamp a new one.
C2_SuccessReplacesCache ==
    (RefreshSucceeded /\ ~res.frame.changed) =>
        /\ \A a \in Addrs : (data[a] # None) <=> (a \in TrackedNow)
        /\ data = res.frame.new_data
        /\ \A a \in TrackedNow \ {REGISTER_POWER} : data[a] = dev[a]
        /\ data[REGISTER_POWER] \in Values
        /\ available
        /\ consecutive_errors = 0
        /\ last_update_time = res.frame.stamp0 + 1

\* C2's case: a cycle succeeded after failures, over a changed device value.
C2_Witness ==
    /\ RefreshSucceeded
    /\ ~res.frame.changed
    /\ res.frame.errors0 > 0
    /\ Len(registers) = 4
    /\ data[REGISTER_POWER] = 0

\* C3: refresh returns normally whatever failed inside the cycle, and a
\* failed cycle leaves available false and the error count one higher.
C3_RefreshNeverRaises ==
    RefreshDone =>
        /\ res.kind = "ok"
        /\ res.msg \in {<<>>, <<"Exception">>, <<"ModbusReadError">>,
                        <<"TimeoutError">>}
        /\ res.msg # <<>> =>
              /\ ~available
              /\ consecutive_errors = res.frame.errors0 + 1

\* C3's case: a cycle whose read timed out has returned.
C3_Witness ==
    /\ RefreshDone
    /\ res.msg = <<"TimeoutError">>
    /\ consecutive_errors = 2

\* C4, as claimed: a refresh cycle that began after a read timeout of an
\* earlier cycle marked the hub not connected, with every transport call
\* answered successfully since and no connect, reconnect or disconnect by
\* anyone else, succeeds.
C4_RecoversByItself ==
    (RefreshDone /\ res.frame.afterLoss /\ linkLost = "clean") =>
        /\ res.msg = <<>>
        /\ available
        /\ consecutive_errors = 0

\* C5: when connect() has returned true, the backoff count is 0 and the hub
\* is connected; when it has returned false, the backoff count is one more
\* than it was when the call took the lock and the hub is not connected.
C5_ConnectOutcome ==
    res.op = "connect" =>
        /\ res.kind = "ok"
        /\ res.val \in {0, 1}
        /\ res.val = 1 => (backoff_count = 0 /\ is_connected)
        /\ res.val = 0 => (backoff_count = res.frame.b0 + 1 /\ ~is_connected)

\* C5's case: a second connect in a row has failed.
C5_Witness ==
    /\ res.op = "connect"
    /\ res.val = 0
    /\ res.frame.b0 = 1
    /\ res.frame.tested = "timeout"

\* C6, as claimed: a test read answered by anything but a good response makes
\* connect() return false, with the hub not connected, the backoff count
\* incremented and the error recorded.
C6_TestReadMandatory ==
    (res.op = "connect" /\ res.frame.tested \notin {"none", "ok"}) =>
        /\ res.val = 0
        /\ ~is_connected
        /\ backoff_count = res.frame.b0 + 1
        /\ last_error = "Test read failed"

\* C7: at most one transport call is in flight at any moment, and it is the
\* lock holder's.
C7_OneInFlight ==
    /\ Cardinality({t \in Tasks : pc[t] \in InFlight}) <= 1
    /\ \A t \in Tasks : pc[t] \in InFlight => lock = t

\* C7's case: one task's write is in flight while another waits to read.
C7_Witness ==
    \E t, u \in Tasks :
        /\ pc[t] = "write_wait"
        /\ pc[u] = "read_lock"
        /\ waitq = <<u>>

\* C8: when a write with verify has had its readback, it has returned true
\* if the readback is the expected value (the written value when none was
\* given; an expected value of 0 is a given one), and has otherwise raised
\* the verification mismatch, which is not the write failure, with the
\* address, the written value, the expected value and the readback.
C8_VerifyOutcome ==
    (res.op = "write" /\ res.frame.verify /\ res.frame.got # None) =>
        LET f == res.frame
            e == IF f.expected # None THEN f.expected ELSE f.value
        IN  IF f.got = e
            THEN res.kind = "ok" /\ res.val = 1
            ELSE /\ res.kind = "ValueError"
                 /\ res.kind # "ModbusWriteError"
                 /\ res.msg = <<f.waddr, f.value, e, f.got>>
                 /\ last_error = "Verification mismatch"

\* C8's case: 1 was written expecting 0, and 0 was read back.
C8_Witness ==
    /\ res.op = "write"
    /\ res.frame.verify
    /\ res.frame.value = 1
    /\ res.frame.expected = 0
    /\ res.frame.got = 0
    /\ res.kind = "ok"

\* C9: when a write is answered while tasks wait for the lock, the first of
\* them gets the lock, and a verify read of the writer (or the connect it
\* begins with, the hub not being connected) waits behind them all.
C9_LockReleasedBeforeVerify ==
    [][\A t \in Tasks :
          (pc[t] = "write_wait" /\ pc'[t] # "write_wait" /\ waitq # <<>>) =>
              /\ lock' = Head(waitq)
              /\ fr'[t].rctx = "verify" =>
                    /\ pc'[t] \in {"read_lock", "conn_lock"}
                    /\ waitq' = Append(Tail(waitq), t)]_vars

\* C9's case: a write the device took has raised the verification mismatch
\* because another task's write went in before its verify read.
C9_Witness ==
    /\ res.op = "write"
    /\ res.kind = "ValueError"
    /\ res.frame.stored
    /\ res.frame.overwritten
    /\ res.frame.expected = None
    /\ res.frame.got # res.frame.value

\* range(start, end + 1, step) as a sequence.
ScanRange(start, end, step) ==
    [k \in 1..range_size(start, end, step) |-> start + (k - 1) * step]

\* C10: when a scan has returned, the addresses it attempted are start,
\* start + step, ... up to end, in this order and once each, and every one
\* of them is either a key of the results or a register of the error list,
\* never both.
C10_ScanAttemptsAll ==
    (res.op = "scan" /\ res.kind = "ok") =>
        LET f == res.frame
            keys == {p[1] : p \in f.results}
            failed == {f.errors[i].register : i \in 1..Len(f.errors)}
        IN  /\ f.attempted = ScanRange(f.start, f.end, f.step)
            /\ Len(f.attempted) = range_size(f.start, f.end, f.step)
            /\ \A i, j \in 1..Len(f.attempted) :
                  i < j => f.attempted[i] < f.attempted[j]
            /\ keys \cup failed = {f.attempted[i] : i \in 1..Len(f.attempted)}
            /\ keys \cap failed = {}
            /\ Cardinality(f.results) + Len(f.errors) = Len(f.attempted)

\* C10's case: a scan with step 2 went on after a read of it timed out.
C10_Witness ==
    /\ res.op = "scan"
    /\ res.kind = "ok"
    /\ res.frame.step = 2
    /\ Len(res.frame.attempted) = 3
    /\ Len(res.frame.errors) = 1
    /\ res.frame.errors[1].error = ""
    /\ \E p \in res.frame.results : p[1] > res.frame.errors[1].register

\* The write service has returned; its result's fields.
SvcDone == res.op = "wsvc" /\ res.kind = "ok"
SvcVerified == res.msg[1]
SvcReadback == res.msg[2]
SvcError == res.msg[3]
SvcExpected ==
    IF res.frame.expected # None THEN res.frame.expected ELSE res.frame.value

\* C12, as claimed: the write service never raises, and when
\* hub.write_register raised, its result has verified false, no readback
\* and a non-empty error description.
C12_FailureAsData ==
    res.op = "wsvc" =>
        /\ res.kind = "ok"
        /\ ~res.frame.hubok =>
              /\ ~SvcVerified
              /\ SvcReadback = None
              /\ SvcError # <<>>
              /\ SvcError # <<"">>

\* C13, as claimed: when hub.write_register with verify returned inside the
\* write service, the result has verified true and no error.
C13_VerifiedWriteReported ==
    (SvcDone /\ res.frame.verify /\ res.frame.hubok) =>
        /\ SvcVerified
        /\ SvcError = <<>>

\* C14, as claimed: a result of a write service call with verify that has
\* verified true carries a readback equal to the expected value.
C14_ReadbackIsExpected ==
    (SvcDone /\ res.frame.verify /\ SvcVerified) =>
        SvcReadback = SvcExpected

\* C14, amended: a result of a write service call with verify that has
\* verified true carries the value its reporting read returned, which is the
\* expected value unless another task's write was stored at the register
\* after the call's own write.
C14_ReadbackIsReported ==
    (SvcDone /\ res.frame.verify /\ SvcVerified) =>
        /\ SvcReadback = res.frame.got
        /\ SvcReadback \in Values
        /\ ~res.frame.touched => SvcReadback = SvcExpected

\* C14's case: verified, with the other task's value as the readback.
C14_Witness ==
    /\ SvcDone
    /\ res.frame.verify
    /\ SvcVerified
    /\ res.frame.touched
    /\ SvcReadback # SvcExpected

\* C15, as claimed: a result with verified true has a readback.
C15_VerifiedHasReadback ==
    (SvcDone /\ SvcVerified) => SvcReadback # None

\* C15, amended: a result with verified true has no error, and has a
\* readback exactly when verify was requested.
C15_ReadbackIffVerify ==
    (SvcDone /\ SvcVerified) =>
        /\ SvcError = <<>>
        /\ (SvcReadback # None) <=> res.frame.verify

\* C15's case: a write without verify has returned verified true.
C15_Witness ==
    /\ SvcDone
    /\ SvcVerified
    /\ ~res.frame.verify
    /\ res.frame.written

\* C11: a scan has returned a configuration error exactly when its register
\* count is above MAX_SCAN_RANGE, and then in the step that called it, with
\* no address attempted and the hub, its lock and the device as they were; a
\* scan of exactly MAX_SCAN_RANGE registers attempts them all.
C11_ScanLimit ==
    [][res'.op = "scan" =>
          LET f == res'.frame
              n == range_size(f.start, f.end, f.step)
          IN  /\ (n > MAX_SCAN_RANGE) <=> (res'.kind = "ValueError")
              /\ res'.kind = "ValueError" =>
                    /\ f.attempted = <<>>
                    /\ pc[res'.task] = "idle"
                    /\ UNCHANGED <<client, connected, backoff_count,
                                   last_error, lock, waitq, dev, faults>>
              /\ n = MAX_SCAN_RANGE =>
                    /\ res'.kind = "ok"
                    /\ Len(f.attempted) = MAX_SCAN_RANGE]_vars

\* C11's case: a scan of MAX_SCAN_RANGE + 1 registers by step 2 was refused
\* on a connected hub.
C11_Witness ==
    /\ res.op = "scan"
    /\ res.kind = "ValueError"
    /\ res.frame.step = 2
    /\ range_size(res.frame.start, res.frame.end, res.frame.step)
          = MAX_SCAN_RANGE + 1
    /\ is_connected

\* C16, as claimed: when remove_register(address) has returned,
\* get_register(address) is None.
C16_RemovedIsAbsent ==
    res.op = "remove_register" => get_register(res.val) = None

\* C17: the coordinator starts available, with no error counted, an empty
\* cache and no timestamp; a step changes available or the error count only
\* by returning from a refresh, and makes available true again only by
\* returning from a refresh cycle that read every register.
C17_AvailabilityByRefreshOnly ==
    /\ available = TRUE
    /\ consecutive_errors = 0
    /\ data = NoData
    /\ last_update_time = 0
    /\ [][/\ (available' # available
                \/ consecutive_errors' # consecutive_errors)
                   => res'.op = "refresh"
          /\ (~available /\ available') => RefreshSucceeded']_vars

\* C17's case: after other hub calls connected the hub, a refresh has made
\* the coordinator available again.
C17_Witness ==
    /\ RefreshSucceeded
    /\ res.frame.errors0 > 0
    /\ available
    /\ dev[REGISTER_POWER] = 0

\* C18: a read or write call whose request timed out has raised the timeout
\* (and only such a call has), leaving the hub not connected and the error
\* recorded; and a read or write call made while the hub is not connected
\* begins with connect().
C18_TimeoutMarksLost ==
    /\ [](res.op \in {"read", "write"} =>
            /\ res.frame.answer = "timeout" <=> res.kind = "TimeoutError"
            /\ res.kind = "TimeoutError" =>
                  /\ ~is_connected
                  /\ last_error \in {"Read timeout", "Write timeout"})
    /\ [][\A t \in Tasks :
             (/\ pc[t] = "idle"
              /\ pc'[t] # "idle"
              /\ fr'[t].op \in {"read", "write"}
              /\ ~is_connected)
                 => /\ pc'[t] \in {"conn_wait", "conn_lock"}
                    /\ fr'[t].cctx \in {"ensure_read", "ensure_write"}]_vars

\* C18's case: after a write timed out, a read is at its connect().
C18_Witness ==
    \E t \in Tasks :
        /\ fr[t].op = "read"
        /\ fr[t].cctx = "ensure_read"
        /\ pc[t] = "conn_wait"
        /\ last_error = "Write timeout"
        /\ client

\* reconnect's wait before connect(), 0 for none, as the specification has it.
ReconnectWait(backoff, count) ==
    IF count = 0 THEN 0
    ELSE IF backoff * 2 ^ (count - 1) < MAX_DELAY
    THEN backoff * 2 ^ (count - 1)
    ELSE MAX_DELAY

\* The seconds hub.py 246-252 waits at a backoff count: no sleep is 0 seconds.
CodeWait(backoff, count) ==
    IF count > 0 THEN reconnect_delay(backoff, count) ELSE 0

\* C19: a reconnect() called at backoff count 0 goes to connect() without
\* sleeping; one called at a count of 1 or more sleeps
\* min(backoff * 2^(count - 1), 60) seconds first; and the delay is at most
\* 60 and does not decrease as the count grows.
C19_BackoffDelay ==
    /\ \A t \in Tasks :
          /\ pc[t] = "sleeping" =>
                /\ fr[t].count0 >= 1
                /\ fr[t].slept = ReconnectWait(reconnect_backoff, fr[t].count0)
          /\ (fr[t].op = "reconnect" /\ fr[t].count0 = 0) =>
                (fr[t].slept = None /\ pc[t] # "sleeping")
          /\ fr[t].slept # None => fr[t].slept <= MAX_DELAY
    /\ \A n \in 0..MaxCount :
          /\ CodeWait(reconnect_backoff, n) <= MAX_DELAY
          /\ CodeWait(reconnect_backoff, n)
                <= CodeWait(reconnect_backoff, n + 1)
          /\ CodeWait(reconnect_backoff, n)
                = ReconnectWait(reconnect_backoff, n)

\* C19's case: a reconnect() sleeps the capped delay.
C19_Witness ==
    \E t \in Tasks :
        /\ pc[t] = "sleeping"
        /\ fr[t].count0 = 2
        /\ fr[t].slept = MAX_DELAY
        /\ reconnect_backoff * 2 > MAX_DELAY

\* C20: only reconnect() sleeps; a read or write call goes to connect() in
\* the step it begins in exactly when the hub is not connected, whatever the
\* backoff count, and once that connect() has returned the call does not
\* enter connect() again.
C20_LazyConnectDirect ==
    /\ [](\A t \in Tasks :
             (pc[t] = "sleeping" \/ fr[t].slept # None)
                 => fr[t].op = "reconnect")
    /\ [][\A t \in Tasks :
             /\ (/\ pc[t] = "idle"
                 /\ pc'[t] # "idle"
                 /\ fr'[t].op \in {"read", "write"})
                    => /\ (pc'[t] \in {"conn_wait", "conn_lock"})
                             <=> ~is_connected
                       /\ (pc'[t] \in {"conn_wait", "conn_lock"})
                             <=> (fr'[t].cctx \in
                                     {"ensure_read", "ensure_write"})
             /\ (/\ pc[t] \in {"conn_wait", "test_wait"}
                 /\ fr[t].cctx \in {"ensure_read", "ensure_write"}
                 /\ pc'[t] # pc[t])
                    => pc'[t] \in {"test_wait", "read_lock", "read_wait",
                                   "write_lock", "write_wait", "idle"}]_vars

\* C20's case: at backoff count 2 a read is at its connect(), unslept.
C20_Witness ==
    \E t \in Tasks :
        /\ fr[t].op = "read"
        /\ fr[t].cctx = "ensure_read"
        /\ pc[t] = "conn_wait"
        /\ fr[t].b0 = 2
        /\ fr[t].slept = None

\* The hub's connection and error bookkeeping.
HubBook == <<backoff_count, last_error>>

\* C21: disconnect() never raises, whether or not there is a client and even
\* if closing it fails; when it has returned no client is held and the hub is
\* not connected; and no step of a disconnect() call changes the backoff
\* count or the recorded error.
C21_DisconnectIdempotent ==
    /\ [](res.op = "disconnect" =>
             /\ res.kind = "ok"
             /\ ~client
             /\ ~is_connected)
    /\ [][\A t \in Tasks :
             (\/ fr'[t].op = "disconnect" /\ pc'[t] # pc[t]
              \/ res'.task = t /\ res'.op = "disconnect")
                 => HubBook' = HubBook]_vars

\* C21's case: with an error on record and a backoff count, a disconnect()
\* whose close() failed has returned.
C21_Witness ==
    /\ res.op = "disconnect"
    /\ res.frame.closed = "raises"
    /\ backoff_count > 0
    /\ last_error # ""

\* The ways a transport request fails at the I/O level: an error response, a
\* timeout, a connection exception, another exception of the transport.
IOFailures == {"error", "timeout", "connexc", "exc"}

\* C22, as claimed: when a read_register or write_register call has failed
\* on its transport request, whichever way the request failed, the hub's
\* connected flag is false.
C22_FailureDisconnects ==
    (/\ res.op \in {"read", "write"}
     /\ res.kind \notin {"ok", "ValueError"}
     /\ res.frame.answer \in IOFailures)
        => ~connected

\* A connect, read_register or write_register call has failed.
HubCallFailed ==
    \/ res.op = "connect" /\ res.val = 0
    \/ res.op \in {"read", "write"} /\ res.kind # "ok"

\* C23, as claimed: when a connect, read_register or write_register call has
\* failed, whatever made it fail, an error message is on record and
\* _record_error ran, stamping the time, during that call.
C23_EveryFailureRecorded ==
    HubCallFailed => (last_error # "" /\ res.frame.recorded)

\* The adapter method a completed read or write call last went to, and the
\* convention that method takes.
LastMethod(f) ==
    IF f.op = "read" \/ f.rctx = "verify"
    THEN "read_holding_registers" ELSE "write_register"
Taken(f) == IF LastMethod(f) = "read_holding_registers" THEN adapter ELSE wadapter
IsPrefix(q) == q = SubSeq(Conventions, 1, Len(q))
Last(q) == q[Len(q)]

\* C24: the conventions are tried in the order device_id, slave, unit, none,
\* none skipped; a request with the transport went out by the convention the
\* adapter takes, after every earlier one raised TypeError; when the transport
\* has answered it with anything but a TypeError that answer is the call's
\* outcome and no later convention was tried; and with all four rejected the
\* call fails with a read failure (a read request) or a write failure (a
\* write request), no request being left with the transport.
C24_ConventionOrder ==
    /\ \A t \in Tasks :
          /\ IsPrefix(fr[t].tried)
          /\ pc[t] \in {"read_wait", "write_wait"} =>
                /\ fr[t].sent
                /\ fr[t].tried # <<>>
                /\ Last(fr[t].tried) =
                      (IF pc[t] = "read_wait" THEN adapter ELSE wadapter)
    /\ (res.op \in {"read", "write"} /\ res.frame.answer \in IOFailures) =>
          /\ Last(res.frame.tried) = Taken(res.frame)
          /\ res.kind = (CASE res.frame.answer = "timeout" -> "TimeoutError"
                           [] LastMethod(res.frame) = "write_register"
                                -> "ModbusWriteError"
                           [] OTHER -> "ModbusReadError")
    /\ (res.op \in {"read", "write"} /\ res.frame.answer = "ok") =>
          /\ Last(res.frame.tried) = Taken(res.frame)
          /\ res.kind \in {"ok", "ValueError"}
    /\ (res.op \in {"read", "write"} /\ res.frame.answer = "rejected") =>
          /\ res.frame.tried = Conventions
          /\ res.kind = (IF LastMethod(res.frame) = "read_holding_registers"
                         THEN "ModbusReadError" ELSE "ModbusWriteError")

\* C24's case: a write to an adapter taking the third convention timed out.
C24_Witness ==
    /\ res.op = "write"
    /\ res.frame.answer = "timeout"
    /\ res.kind = "TimeoutError"
    /\ res.frame.tried = <<"device_id", "slave", "unit">>

\* The adapter takes exactly one of the four conventions, the same for reads
\* and writes, and the transport has answered every call so far without a
\* fault.
OneConventionHealthy ==
    /\ adapter \in {Conventions[i] : i \in 1..Len(Conventions)}
    /\ wadapter = adapter
    /\ faults = MaxFaults - 1

\* C25, as claimed: against a healthy device behind an adapter that takes
\* only one of the four conventions, whichever, connect() returns true and
\* read_register and write_register do not fail on the bus.
C25_EveryAdapterServed ==
    OneConventionHealthy =>
        /\ res.op = "connect" => res.val = 1
        /\ res.op \in {"read", "write"} => res.kind \in {"ok", "ValueError"}

\* C26: a read or write request with the transport carries the unit-id
\* override the call was given, unit 0 included, and the hub's configured
\* unit id when it was given none; the verify read of write_register is
\* given the override the write was given; and the configured unit id is
\* never changed.
C26_EffectiveUnit ==
    /\ unit_id = DEFAULT_UNIT_ID
    /\ \A t \in Tasks :
          /\ (pc[t] = "read_wait" /\ fr[t].sent) =>
                fr[t].wire = (IF fr[t].runit # None THEN fr[t].runit
                              ELSE DEFAULT_UNIT_ID)
          /\ (pc[t] = "write_wait" /\ fr[t].sent) =>
                fr[t].wire = (IF fr[t].wunit # None THEN fr[t].wunit
                              ELSE DEFAULT_UNIT_ID)
          /\ (fr[t].rctx = "verify" /\ pc[t] # "idle") =>
                fr[t].runit = fr[t].wunit

\* C26's case: the verify read of a write given unit 0 is with the transport
\* while another task's request, given no override, waits for the lock.
C26_Witness ==
    \E t, u \in Tasks :
        /\ pc[t] = "read_wait"
        /\ fr[t].rctx = "verify"
        /\ fr[t].wunit = 0
        /\ fr[t].wire = 0
        /\ pc[u] \in {"read_lock", "write_lock"}
        /\ fr[u].runit = None
        /\ fr[u].wunit = None

\* C27: when a refresh cycle whose tracked list did not change has ended,
\* the addresses it passed to read_register are, in order, the head of the
\* tracked list: all of the list when the cycle succeeded, each read having
\* returned a value; and when a read failed, the list up to the failing
\* register, every read before it having returned a value and none made
\* after it.  While the cycle runs it has passed idx addresses and waits for
\* the last of them only.
C27_OrderedUntilFailure ==
    /\ (RefreshDone /\ ~res.frame.changed) =>
          LET att == res.frame.attempted
              n == Len(att)
          IN  /\ n <= Len(registers)
              /\ att = SubSeq(registers, 1, n)
              /\ RefreshSucceeded =>
                    /\ n = Len(registers)
                    /\ \A i \in 1..n : res.frame.new_data[att[i]] # None
              /\ (RefreshFailed /\ n > 0) =>
                    /\ \A i \in 1..(n - 1) : res.frame.new_data[att[i]] # None
                    /\ res.frame.new_data[att[n]] = None
                    /\ res.frame.addr = att[n]
    /\ \A t \in Tasks :
          fr[t].op = "refresh" =>
              /\ Len(fr[t].attempted) = fr[t].idx
              /\ fr[t].idx > 0
              /\ fr[t].addr = fr[t].attempted[fr[t].idx]

\* C27's case: the second read of a cycle over four registers failed.
C27_Witness ==
    /\ RefreshFailed
    /\ ~res.frame.changed
    /\ Len(registers) = 4
    /\ Len(res.frame.attempted) = 2
    /\ res.frame.answer = "error"

\* What the bus and the availability status consist of.
BusAndStatus(s) ==
    <<s.client, s.connected, s.backoff_count, s.last_error, s.lock, s.waitq,
      s.dev, s.pc, s.available, s.consecutive_errors, s.last_update_time>>

\* The addresses the operations are tried with: the default registers, on
\* the list or taken off it, and one that is never on it.
ListArgs == Tracked \cup {REGISTER_POWER + 2}

NoDuplicates(q) == \A i, j \in 1..Len(q) : q[i] = q[j] => i = j

\* C28: the tracked list holds no address twice; add_register of a tracked
\* address leaves the list as it is, and so does remove_register of an
\* untracked one; add_register and then remove_register of an untracked
\* address give the list back as it was; and neither operation changes the
\* hub, the lock, the device, any task's position or the availability status.
C28_TrackedListIsASet ==
    /\ NoDuplicates(registers)
    /\ \A a \in ListArgs :
          LET added == add_register(Cur, a)
              removed == remove_register(Cur, a)
          IN  /\ InList(registers, a) => added.registers = registers
              /\ ~InList(registers, a) =>
                    /\ removed.registers = registers
                    /\ removed.data = data
                    /\ remove_register(added, a).registers = registers
              /\ InList(added.registers, a)
              /\ ~InList(removed.registers, a)
              /\ NoDuplicates(added.registers)
              /\ BusAndStatus(added) = BusAndStatus(Cur)
              /\ BusAndStatus(removed) = BusAndStatus(Cur)

\* C28's case: remove_register has just taken an address off the list while
\* a refresh cycle is reading, so that add_register can put it back.
C28_Witness ==
    /\ res.op = "remove_register"
    /\ Len(registers) = 3
    /\ ~InList(registers, REGISTER_MODE)
    /\ \E t \in Tasks : fr[t].op = "refresh" /\ pc[t] = "read_wait"

\* C29, as claimed: until a refresh cycle has succeeded, which is when the
\* first timestamp is taken, get_register returns None for every address,
\* whatever failed cycles read before.
C29_NothingCachedBeforeSuccess ==
    last_update_time = 0 => \A a \in Addrs : get_register(a) = None

\* What an auxiliary switch's action must leave alone to have made no bus
\* traffic.
Bus == <<client, connected, backoff_count, last_error, lock, waitq, dev>>

\* C30: an action of the home/away or humidify switch that finds the cached
\* power register at 1 goes on to its write of register 1034 or 1168; one
\* that finds it at 0 or absent returns in the same step with the hub, the
\* lock and the device as they were.
C30_AuxNeedsPower ==
    [][\A t \in Tasks :
          (/\ pc[t] = "idle"
           /\ \/ fr'[t].op = "aux"
              \/ res'.task = t /\ res'.op = "aux")
              => IF get_register(REGISTER_POWER) = 1
                 THEN /\ pc'[t] \in {"conn_lock", "conn_wait", "write_lock",
                                     "write_wait"}
                      /\ fr'[t].waddr \in AuxRegisters
                      /\ fr'[t].verify
                 ELSE /\ pc'[t] = "idle"
                      /\ res'.kind = "ok"
                      /\ Bus' = Bus]_vars

\* C30's case: with the power register cached as 0 while the device is on,
\* an auxiliary switch's action has returned.
C30_Witness ==
    /\ res.op = "aux"
    /\ res.kind = "ok"
    /\ res.frame.wctx = "none"
    /\ data[REGISTER_POWER] = 0
    /\ dev[REGISTER_POWER] = 1

\* C31, as claimed: the mode select hands a write of register 1041 to the
\* transport only with the power register cached as 0; checked here is the
\* weaker half, that no such write is handed over while the cache holds 1.
C31_ModeNeedsPowerOff ==
    [][\A t \in Tasks :
          (/\ fr'[t].op \in {"mode", "hamode"}
           /\ pc[t] # "write_wait"
           /\ pc'[t] = "write_wait"
           /\ fr'[t].sent
           /\ fr'[t].waddr = REGISTER_MODE)
              => data'[REGISTER_POWER] # 1]_vars

\* The values the configuration takes effect with: a key left out takes its
\* default.
EffectivePoll ==
    Get(config.input, "poll_interval", PyInt(DEFAULT_POLL_INTERVAL))
EffectiveTimeout == Get(config.input, "timeout", PyInt(DEFAULT_TIMEOUT))
EffectivePort == Get(config.input, "port", PyInt(DEFAULT_PORT))
Accepted == config.done /\ config.raised = "" /\ config.errors = {}

\* C32, as claimed: an input is accepted only if its effective poll interval
\* is at least 5 and its effective timeout is strictly less than its
\* effective poll interval; a port outside 1..65535 or an empty host is
\* always rejected.
C32_ValidationBounds ==
    Accepted =>
        /\ EffectivePoll.n >= MIN_POLL_INTERVAL
        /\ comparable(EffectiveTimeout, EffectivePoll)
        /\ ~ge(EffectiveTimeout, EffectivePoll)
        /\ EffectivePort.n \in 1..65535
        /\ Get(config.input, "host", PyStr(<<>>)).s # <<>>

\* The conditions hub.write_register raises.
WriteFailures ==
    {"ModbusWriteError", "ModbusReadError", "TimeoutError", "ValueError"}

\* C33: the step in which the power switch's turn_on or turn_off ends either
\* raises what hub.write_register raised and leaves the cache as it was, or
\* returns after a write answered without error and a verify read that
\* matched, with the written value cached for the power register and
\* nothing else changed; no other step of the action touches the cache.
\* The entity Home Assistant is given behaves alike up to the refresh it
\* ends with: the step in which its write phase ends either raises what
\* hub.write_register raised, or goes on to the refresh after a write
\* answered without error and a verify read of the written value, and the
\* cache is as it was in both cases.
C33_PowerSwitchFailsLoudly ==
    [][\A t \in Tasks :
          /\ fr[t].op = "power" =>
                IF res'.task = t /\ res'.op = "power"
                THEN IF res'.kind = "ok"
                     THEN /\ res'.frame.written
                          /\ res'.frame.got = res'.frame.value
                          /\ data' = [data EXCEPT ![REGISTER_POWER] =
                                                      res'.frame.value]
                     ELSE /\ res'.kind \in WriteFailures
                          /\ data' = data
                ELSE res'.task = 0 => data' = data
          /\ fr[t].op = "hapower" =>
                IF res'.task = t /\ res'.op = "hapower"
                THEN /\ res'.kind \in WriteFailures
                     /\ data' = data
                ELSE IF res'.task = t \/ fr'[t].op = "refresh"
                THEN /\ fr[t].written
                     /\ dev[REGISTER_POWER] = fr[t].value
                     /\ data' = data
                ELSE res'.task = 0 => data' = data]_vars

\* C33's case: a turn_off timed out on its write while the cache, filled by
\* a refresh, holds 1 for the power register; the timeout reached the caller.
C33_Witness ==
    /\ res.op = "power"
    /\ res.kind = "TimeoutError"
    /\ res.frame.answer = "timeout"
    /\ res.frame.value = 0
    /\ data[REGISTER_POWER] = 1

\* C34: the hub never has more than one transport client open, and the one
\* open is the one it holds; a connect that found a client, also one left by
\* a failed connect, closed it before creating its own; when disconnect
\* returns no client is held and none is open.
C34_OneLiveClient ==
    /\ live = (IF client THEN 1 ELSE 0)
    /\ res.op = "disconnect" => ~client /\ live = 0

\* C34's case: a connect is under way that closed the client an earlier,
\* failed connect had left, while another task waits to disconnect.
C34_Witness ==
    \E t, u \in Tasks :
        /\ pc[t] \in {"conn_wait", "test_wait"}
        /\ fr[t].closed = "ok"
        /\ fr[t].b0 > 0
        /\ ~connected
        /\ pc[u] = "disc_lock"
        /\ live = 1

\* C35: available is true exactly when the error count is 0; a step in which
\* a refresh cycle completes with failure adds one to the count, one in which
\* a cycle completes with success sets it to 0, and no other step changes
\* it, so the count is the number of cycles that completed with failure
\* since the last that completed with success.
C35_ErrorCountIsFailuresSinceSuccess ==
    /\ [](available <=> consecutive_errors = 0)
    /\ [][IF res'.op = "refresh"
          THEN IF res'.kind = "ok" /\ res'.msg = <<>>
               THEN consecutive_errors' = 0
               ELSE consecutive_errors' = consecutive_errors + 1
          ELSE consecutive_errors' = consecutive_errors]_vars

\* C35's case: a cycle completed with success and reset the count while
\* another cycle, begun when the count stood at 1, is still in flight.
C35_Witness ==
    /\ RefreshSucceeded
    /\ consecutive_errors = 0
    /\ \E u \in Tasks :
          /\ fr[u].op = "refresh"
          /\ pc[u] \in {"read_lock", "read_wait"}
          /\ fr[u].errors0 = 1

\* C36, as claimed: a step that hands a read or write request to the
\* transport finds the hub holding a client with its connected flag true,
\* also when the task had passed the ensure-connected check and then waited
\* for the lock.
C36_RequestOnlyWhenConnected ==
    [][\A t \in Tasks :
          (/\ pc'[t] \in {"read_wait", "write_wait"}
           /\ pc[t] # pc'[t]
           /\ fr'[t].sent)
              => client' /\ connected']_vars

\* The part of C36 that the code keeps: no request is handed over on a hub
\* that holds no client.
RequestNeedsClient ==
    [][\A t \in Tasks :
          (/\ pc'[t] \in {"read_wait", "write_wait"}
           /\ pc[t] # pc'[t]
           /\ fr'[t].sent)
              => client']_vars

\* C37: the task holding the lock is never among its waiters; every call in
\* progress eventually returns or raises; and with no call in progress the
\* lock is free.
C37_EveryCallReturns ==
    /\ [](\A i \in 1..Len(waitq) : waitq[i] # lock)
    /\ []((\A t \in Tasks : pc[t] = "idle") => LockFree(Cur))
    /\ \A t \in Tasks : (pc[t] # "idle") ~> (pc[t] = "idle")

\* C37's case: a verified write has released the lock and waits for it again
\* for its verify read, behind a task that was queued during the write.
C37_Witness ==
    \E t, u \in Tasks :
        /\ fr[t].op = "write"
        /\ fr[t].rctx = "verify"
        /\ pc[t] = "read_lock"
        /\ lock = u
        /\ u # t
        /\ waitq = <<t>>

NoRefreshInFlight == \A t \in Tasks : fr[t].op # "refresh"
Cached == {a \in Addrs : get_register(a) # None}

\* C38, as claimed: with no refresh cycle in flight every cached address is
\* tracked, and when a cycle has just completed with success every tracked
\* address is cached, whatever add_register and remove_register did while
\* the cycle was suspended.
C38_CacheFollowsTrackedSet ==
    NoRefreshInFlight =>
        /\ Cached \subseteq TrackedNow
        /\ RefreshSucceeded => TrackedNow \subseteq Cached

\* The second half of C38 alone: no tracked address is skipped by a cycle
\* that succeeds.
NoTrackedSkipped ==
    NoRefreshInFlight /\ RefreshSucceeded => TrackedNow \subseteq Cached

AllIdle == \A t \in Tasks : pc[t] = "idle"

\* C39, as claimed: once every refresh cycle and switch action has completed,
\* the cached value of each register is the one the most recent bus access
\* to it obtained.  Here the transport answers every call and the device
\* changes only by the hub's writes, so that value is the one the device
\* holds: every read since the last write of the register returned it, and
\* the write put it there.
C39_NoStaleOverwrite ==
    AllIdle => \A a \in Addrs : get_register(a) # None
                                    => get_register(a) = dev[a]

\* The task is inside connect(), awaiting client.connect() or the test read.
Connecting(t) == pc[t] \in {"conn_wait", "test_wait"}

\* C40: the backoff count is never negative, and a step changes it only by
\* ending a connect attempt, explicit or lazy: by one up when the attempt
\* failed, to 0 when it succeeded.  Every other step (a read or write
\* answered or failed, a verification mismatch, a disconnect) leaves it.
C40_BackoffOnlyByConnect ==
    /\ [](backoff_count >= 0)
    /\ [][backoff_count' # backoff_count =>
            \E t \in Tasks :
                /\ Connecting(t)
                /\ ~Connecting(t)'
                /\ IF connected'
                   THEN backoff_count' = 0
                   ELSE backoff_count' = backoff_count + 1]_vars

\* C40's case: a disconnect has returned, closing the client a failed
\* connect left, and the count that connect raised still stands.
C40_Witness ==
    /\ res.op = "disconnect"
    /\ res.frame.closed = "ok"
    /\ backoff_count = 1
    /\ last_error # ""

=============================================================================
